---- MODULE Spec2Model ----
(***************************************************************************)
(* Model of ultrabus::Connection (request/reply correlation, disconnect)   *)
(* and of ultrabus::MessageHandler (match rules).                          *)
(*                                                                         *)
(* One reactor thread ("reactor", the iomultiplex I/O handler context) and *)
(* the caller threads of Callers run the public API concurrently.  A       *)
(* request is named by the number of the send call that made it; that      *)
(* number stands for the message, for its reply callback and for the       *)
(* DBusPendingCall* the transport hands back for it.                       *)
(*                                                                         *)
(* pending_msg_mutex, io_mutex and match_rule_mutex are each held for the  *)
(* whole of one action of the model, so every critical section of the code *)
(* is one atomic step; the steps between two critical sections interleave. *)
(*                                                                         *)
(* WaitSpec adds send_and_wait and the Hello handshake of connect(address),*)
(* TimeoutSpec a peer that never replies.  ValSpec applies the operations  *)
(* of the typed values (dbus_basic, dbus_struct, dbus_array,               *)
(* dbus_dict_entry, dbus_variant, Properties) to the value dst, and        *)
(* ArgSpec applies Message::get_args; a signature is a string.  WatchSpec  *)
(* runs the readiness handlers of the transport's watches, and ProxySpec   *)
(* the signal callbacks of an ObjectProxy and the dispatch of a            *)
(* MessageHandler.  RegistrySpec follows the watches and timeouts the       *)
(* transport adds, toggles and removes, ReentrantSpec a disconnect() that  *)
(* a callback calls on the reactor thread, MessageSpec the references to   *)
(* message handles that Message objects own, and SignalSpec the mutexes of *)
(* on_signal in the Properties and ObjectManager proxies.                  *)
(***************************************************************************)
EXTENDS Integers, FiniteSets, Sequences, TLC

\* Number of send(msg, reply_cb, timeout) calls made in one behaviour.
MaxReq == 2

Reactor == "reactor"
Callers == {"t1", "t2"}
Threads == Callers \cup {Reactor}
Rules   == {"rule"}
Watches == {"watch"}

\* The two watches of a connected transport: the read watch carries
\* DBUS_WATCH_READABLE, the write watch DBUS_WATCH_WRITABLE.
WatchIds == {"read_watch", "write_watch"}
Reqs    == 1..MaxReq

VARIABLES
    conn,                \* DBusConnection* conn: "null", "open", or "released"
                         \* (unref'ed by disconnect, pointer not yet reset)
    internal_io_handler, \* bool internal_io_handler
    running,             \* the reactor accepts new work (ioh->run / ioh->stop)
    io_watches,          \* keys of std::map<DBusWatch*, FdConnection> io_watches
    io_timers,           \* deferred send tasks queued in io_timers (zero delay)
    pending_messages,    \* keys of std::map<DBusPendingCall*, pending_msg_cb_t>
    match_rules,         \* std::set<std::string> match_rules
    tcalls,              \* transport: pending calls not yet completed
    rpc,                 \* position of the reactor thread
    pc,                  \* position of each caller thread
    req,                 \* per request: what happened to it so far
    nreq,                \* number of requests made so far
    disc,                \* "no", "called", "returned": progress of disconnect()
    lastOp,              \* the last operation performed on the transport handle
    wait,                \* per caller thread: the blocking call it is inside
    dst,                 \* a typed value (dbus_type) the application works on
    src,                 \* a second typed value, the operand of copy and move
    last,                \* the last typed-value operation and what it returned
    incoming,            \* transport: messages read and not yet dispatched
    enabled,             \* transport: dbus_watch_get_enabled of each watch
    armed,               \* watches whose FdConnection has a callback waiting
    wpc,                 \* position of the reactor in a readiness handler
    twatches,            \* transport: the watches added and not removed
    ttimeouts,           \* transport: per timeout added, enabled and interval
    io_timeouts,         \* std::map<DBusTimeout*, long> io_timeouts
    timers,              \* the timers of io_timers set for a timeout
    next_timer,          \* the id TimerSet::set gives out next
    msgs,                \* DBusMessage* msg_handle of each Message object
    refs,                \* transport: the reference count of each message handle
    held,                \* references the caller of dbus_message_new still has
    mutex,               \* owner of props_changed_mutex and of iface_mutex
    tables,              \* keys of the three callback tables of the proxies
    spc                  \* position of the reactor thread in on_signal

\* The members of Connection and the threads using it.
cvars == <<conn, internal_io_handler, running, io_watches,
           io_timers, pending_messages, match_rules, tcalls, rpc, pc, req,
           nreq, disc, lastOp>>

\* The typed values.
tvars == <<dst, src, last>>

\* The timeout registry.
rvars == <<ttimeouts, io_timeouts, timers, next_timer>>

\* The Message objects and their handles.
mvars == <<msgs, refs, held>>

\* The callback tables of the Properties and ObjectManager proxies.
svars == <<mutex, tables, spc>>

\* The readiness handlers of the transport's watches, and the above.
evars == <<incoming, enabled, armed, wpc, twatches, rvars, mvars, svars>>

vars == <<cvars, wait, tvars, evars>>

NoReq == [origin |-> "none", returned |-> FALSE, ret |-> 0, rejected |-> FALSE,
          registered |-> FALSE, dropped |-> FALSE, lost |-> FALSE,
          cb |-> 0, reply |-> "none"]

NoOp == [api |-> "none", prim |-> "none", thread |-> "none"]

Idle == [at |-> "idle", id |-> 0, back |-> "idle"]

\* A caller thread that is not inside send_and_wait or connect.
NoWait == [api |-> "none", id |-> 0, ret |-> "none"]

\* A null dbus_type_ptr.
Null == [kind |-> "null"]

\* No typed-value operation was made yet.
NoHandler == [at |-> "idle", watch |-> "none"]

NoCall == [op |-> "none", arg |-> 0, ret |-> 0, exc |-> "none"]

\* ---------------------------------------------------------------- helpers

\* iohandler_base::same_context(): the calling thread is the reactor thread.
same_context(t) == t = Reactor

\* Application code runs on thread t: a caller thread outside disconnect(),
\* or the reactor thread inside a reply callback of the application (the
\* callback of send_and_wait is its own lambda, which only stores the reply).
AppRuns(t) ==
    IF t = Reactor
    THEN rpc.at = "callback" /\ \A c \in Callers : wait[c].id # rpc.id
    ELSE pc[t] = "idle"

\* Outcomes of dbus_connection_send_with_reply / dbus_connection_send on conn.
\* An open handle accepts or rejects (out of memory).  A null handle is
\* rejected by the transport's argument check.  A released handle is used
\* after dbus_connection_unref: a shared connection is still alive and may
\* accept, a freed one may do either.
TransportAccepts ==
    IF conn = "null" THEN {FALSE} ELSE BOOLEAN

Op(api, prim, t) == [api |-> api, prim |-> prim, thread |-> t]

\* ------------------------------------------------------------------- Init

\* Connection::Connection: no handle, empty tables, no thread inside a call.
Connection ==
    /\ conn = "null"
    /\ internal_io_handler \in BOOLEAN
    /\ running = ~internal_io_handler
    /\ io_watches = {}
    /\ io_timers = {}
    /\ pending_messages = {}
    /\ match_rules = {}
    /\ tcalls = {}
    /\ rpc = Idle
    /\ pc = [t \in Callers |-> "idle"]
    /\ req = [i \in Reqs |-> NoReq]
    /\ nreq = 0
    /\ disc = "no"
    /\ lastOp = NoOp
    /\ wait = [t \in Callers |-> NoWait]

\* The mutexes of the two proxies and the callback tables they guard.
Mutexes == {"props_changed_mutex", "iface_mutex"}
Tables == {"props_changed_callbacks", "iface_added_callbacks",
           "iface_removed_callbacks"}

\* on_signal is not running.
NoSignal == [at |-> "idle", table |-> "none", found |-> FALSE]

\* The Message objects of an application: the reply of send_and_wait, the
\* reply r handed to its callback, and the message sent.
Objects == {"reply", "r", "msg"}

\* No readiness handler is running, nothing waits on a watch and no Message
\* is constructed (msg_handle -1 stands for an object that does not exist, 0
\* for nullptr).
NoEvents ==
    /\ incoming = 0
    /\ enabled = [w \in WatchIds |-> FALSE]
    /\ armed = {}
    /\ wpc = NoHandler
    /\ twatches = {}
    /\ ttimeouts = <<>>
    /\ io_timeouts = <<>>
    /\ timers = {}
    /\ next_timer = 0
    /\ msgs = [m \in Objects |-> -1]
    /\ refs = <<>>
    /\ held = <<>>
    /\ mutex = [x \in Mutexes |-> "none"]
    /\ tables = [tbl \in Tables |-> {}]
    /\ spc = NoSignal

\* The application holds no typed value.
NoValues ==
    /\ dst = Null
    /\ src = Null
    /\ last = NoCall

Init ==
    /\ Connection
    /\ NoValues
    /\ NoEvents

\* ---------------------------------------------------------------- connect

\* Connection::start_message_dispatcher: start the internal worker thread and
\* hand the watch functions to the transport, which adds its watches.
start_message_dispatcher ==
    /\ running' = TRUE
    /\ io_watches' = Watches

\* Connection::connect(type, private_connection, exit_on_disconnect) called by
\* a caller thread on a connection that was never connected.
connect(t, ok) ==
    /\ pc[t] = "idle"
    /\ conn = "null"
    /\ disc = "no"
    /\ IF ok
       THEN /\ conn' = "open"
            /\ start_message_dispatcher
       ELSE UNCHANGED <<conn, running, io_watches>>
    /\ UNCHANGED <<tvars, evars, wait, internal_io_handler, io_timers, pending_messages,
                   match_rules, tcalls, rpc, pc, req, nreq, disc, lastOp>>

\* ------------------------------------------------------------------- send

\* send on the reactor thread as it would be if a rejection were reported
\* as success: 0 is returned although the request was rejected.
send_same_context_ret0(i, ok) ==
    /\ lastOp' = Op("send_cb", "dbus_connection_send_with_reply", Reactor)
    /\ IF ok
       THEN /\ pending_messages' = pending_messages \cup {i}
            /\ tcalls' = tcalls \cup {i}
       ELSE UNCHANGED <<pending_messages, tcalls>>
    /\ req' = [req EXCEPT ![i] = [@ EXCEPT !.origin = "reactor",
                                           !.returned = TRUE,
                                           !.ret = 0,
                                           !.rejected = ~ok,
                                           !.registered = ok]]
    /\ UNCHANGED io_timers

\* Connection::send(msg, reply_cb, timeout) on the reactor thread
\* (same_context() branch): the request is given to the transport at once,
\* under pending_msg_mutex; a rejection returns -1 and reply_cb is not called.
send_same_context(i, ok) ==
    /\ lastOp' = Op("send_cb", "dbus_connection_send_with_reply", Reactor)
    /\ IF ok
       THEN /\ pending_messages' = pending_messages \cup {i}
            /\ tcalls' = tcalls \cup {i}
            /\ req' = [req EXCEPT ![i] = [@ EXCEPT !.origin = "reactor",
                                                   !.returned = TRUE,
                                                   !.ret = 0,
                                                   !.registered = TRUE]]
       ELSE /\ UNCHANGED <<pending_messages, tcalls>>
            /\ req' = [req EXCEPT ![i] = [@ EXCEPT !.origin = "reactor",
                                                   !.returned = TRUE,
                                                   !.ret = -1,
                                                   !.rejected = TRUE]]
    /\ UNCHANGED io_timers

\* send on another thread as it would be if the request were given to the
\* transport by the calling thread and only its registration were deferred.
send_deferred_early(i) ==
    /\ io_timers' = io_timers \cup {i}
    /\ tcalls' = tcalls \cup {i}
    /\ req' = [req EXCEPT ![i] = [@ EXCEPT !.origin = "caller",
                                           !.returned = TRUE,
                                           !.ret = 0]]
    /\ UNCHANGED <<pending_messages, lastOp>>

\* Connection::send(msg, reply_cb, timeout) on another thread: a zero-delay
\* one-shot timer carrying the send task is set, and send returns 0.
send_deferred(i) ==
    /\ io_timers' = io_timers \cup {i}
    /\ req' = [req EXCEPT ![i] = [@ EXCEPT !.origin = "caller",
                                           !.returned = TRUE,
                                           !.ret = 0]]
    /\ UNCHANGED <<pending_messages, tcalls, lastOp>>

\* Connection::send(msg, reply_cb, timeout) with a non-null reply_cb.
send_cb(t, ok) ==
    /\ AppRuns(t)
    /\ nreq < MaxReq
    /\ nreq' = nreq + 1
    /\ IF same_context(t)
       THEN /\ ok \in TransportAccepts
            /\ send_same_context(nreq + 1, ok)
       ELSE /\ ok = TRUE
            /\ send_deferred(nreq + 1)
    /\ UNCHANGED <<tvars, evars, wait, conn, internal_io_handler, running,
                   io_watches, match_rules, rpc, pc, disc>>

\* The send task as it would be if the timer were set repeating: it stays in
\* io_timers when it fires.
send_task_begin_repeat(i) ==
    /\ running
    /\ rpc.at = "idle"
    /\ i \in io_timers
    /\ rpc' = [at |-> "task", id |-> i, back |-> "idle"]
    /\ UNCHANGED <<tvars, evars, wait, conn, internal_io_handler, running,
                   io_watches, io_timers, pending_messages, match_rules,
                   tcalls, pc, req, nreq, disc, lastOp>>

\* The reactor takes a due timer out of io_timers and enters its callback
\* (the lambda of lines 256-278); the timer is one-shot.
send_task_begin(i) ==
    /\ running
    /\ rpc.at = "idle"
    /\ i \in io_timers
    /\ io_timers' = io_timers \ {i}
    /\ rpc' = [at |-> "task", id |-> i, back |-> "idle"]
    /\ UNCHANGED <<tvars, evars, wait, conn, internal_io_handler, running,
                   io_watches, pending_messages, match_rules, tcalls, pc, req,
                   nreq, disc, lastOp>>

\* The send task as it would be if it did not enter the request the
\* transport accepted in pending_messages.
send_task_unregistered(i, ok) ==
    /\ rpc.at = "task"
    /\ rpc.id = i
    /\ ok \in TransportAccepts
    /\ lastOp' = Op("send_cb", "dbus_connection_send_with_reply", Reactor)
    /\ IF ok
       THEN /\ tcalls' = tcalls \cup {i}
            /\ req' = [req EXCEPT ![i] = [@ EXCEPT !.registered = TRUE]]
            /\ rpc' = Idle
            /\ UNCHANGED pending_messages
       ELSE /\ UNCHANGED <<pending_messages, tcalls>>
            /\ req' = [req EXCEPT ![i] = [@ EXCEPT !.rejected = TRUE]]
            /\ rpc' = [at |-> "task_cb", id |-> i, back |-> "idle"]
    /\ UNCHANGED <<tvars, evars, wait, conn, internal_io_handler, running,
                   io_watches, io_timers, match_rules, pc, nreq, disc>>

\* The send task, under pending_msg_mutex: the request is given to the
\* transport; accepted, it is entered in pending_messages and its notify
\* function is set; rejected, the task goes on to call reply_cb.
send_task(i, ok) ==
    /\ rpc.at = "task"
    /\ rpc.id = i
    /\ ok \in TransportAccepts
    /\ lastOp' = Op("send_cb", "dbus_connection_send_with_reply", Reactor)
    /\ IF ok
       THEN /\ pending_messages' = pending_messages \cup {i}
            /\ tcalls' = tcalls \cup {i}
            /\ req' = [req EXCEPT ![i] = [@ EXCEPT !.registered = TRUE]]
            /\ rpc' = Idle
       ELSE /\ UNCHANGED <<pending_messages, tcalls>>
            /\ req' = [req EXCEPT ![i] = [@ EXCEPT !.rejected = TRUE]]
            /\ rpc' = [at |-> "task_cb", id |-> i, back |-> "idle"]
    /\ UNCHANGED <<tvars, evars, wait, conn, internal_io_handler, running,
                   io_watches, io_timers, match_rules, pc, nreq, disc>>

\* reply_cb starts running with the given reply.
invoke(i, kind) ==
    req' = [req EXCEPT ![i] = [@ EXCEPT !.cb = @ + 1,
                                        !.reply = kind]]

\* The rejected send task as it would be if it returned without calling
\* reply_cb.
send_task_reject_silent(i) ==
    /\ rpc.at = "task_cb"
    /\ rpc.id = i
    /\ rpc' = Idle
    /\ UNCHANGED <<tvars, evars, wait, conn, internal_io_handler, running,
                   io_watches, io_timers, pending_messages, match_rules,
                   tcalls, pc, req, nreq, disc, lastOp>>

\* The rejected send task calls reply_cb with the synthesized error reply
\* (lines 266-275), outside pending_msg_mutex.
send_task_reject(i) ==
    /\ rpc.at = "task_cb"
    /\ rpc.id = i
    /\ invoke(i, "local_error")
    /\ rpc' = [at |-> "callback", id |-> i, back |-> "idle"]
    /\ UNCHANGED <<tvars, evars, wait, conn, internal_io_handler, running,
                   io_watches, io_timers, pending_messages, match_rules,
                   tcalls, pc, nreq, disc, lastOp>>

\* ------------------------------------------------- dispatch and completion

\* A readiness or timer event: the reactor enters dbus_connection_dispatch
\* (on_watch_rx_ready, lines 374-375; the timer callbacks, lines 591-592).
\* The event needs a registered watch.
dispatch_begin ==
    /\ running
    /\ rpc.at = "idle"
    /\ io_watches # {}
    /\ tcalls # {}
    /\ rpc' = [at |-> "dispatch", id |-> 0, back |-> "idle"]
    /\ UNCHANGED <<tvars, evars, wait, conn, internal_io_handler, running,
                   io_watches, io_timers, pending_messages, match_rules,
                   tcalls, pc, req, nreq, disc, lastOp>>

\* Inside dbus_connection_dispatch the transport completes pending call i,
\* with the peer's reply or with its own timeout error, and calls the notify
\* function dbus_pending_msg_cb.  The transport completes a call once.
transport_complete(i, kind) ==
    /\ rpc.at = "dispatch"
    /\ i \in tcalls
    /\ tcalls' = tcalls \ {i}
    /\ rpc' = [at |-> "notify", id |-> i, back |-> kind]
    /\ UNCHANGED <<tvars, evars, wait, conn, internal_io_handler, running,
                   io_watches, io_timers, pending_messages, match_rules,
                   pc, req, nreq, disc, lastOp>>

\* dbus_connection_dispatch reports that no data remains.
dispatch_end ==
    /\ rpc.at = "dispatch"
    /\ rpc' = Idle
    /\ UNCHANGED <<tvars, evars, wait, conn, internal_io_handler, running,
                   io_watches, io_timers, pending_messages, match_rules,
                   tcalls, pc, req, nreq, disc, lastOp>>

\* dbus_pending_msg_cb as it would be if the entry were erased before the
\* callback is copied out: the callback is empty and is never called.
dbus_pending_msg_cb_lookup_drop(i) ==
    /\ rpc.at = "notify"
    /\ rpc.id = i
    /\ pending_messages' = pending_messages \ {i}
    /\ rpc' = [at |-> "dispatch", id |-> 0, back |-> "idle"]
    /\ req' = [req EXCEPT ![i] = [@ EXCEPT !.lost = i \notin pending_messages]]
    /\ UNCHANGED <<tvars, evars, wait, conn, internal_io_handler, running,
                   io_watches, io_timers, match_rules, tcalls, pc, nreq,
                   disc, lastOp>>

\* dbus_pending_msg_cb as it would be if the entry were left in the table
\* until the callback has returned.
dbus_pending_msg_cb_lookup_keep(i) ==
    /\ rpc.at = "notify"
    /\ rpc.id = i
    /\ IF i \in pending_messages
       THEN /\ rpc' = [rpc EXCEPT !.at = "notify_cb"]
            /\ UNCHANGED req
       ELSE /\ rpc' = [at |-> "dispatch", id |-> 0, back |-> "idle"]
            /\ req' = [req EXCEPT ![i] = [@ EXCEPT !.lost = TRUE]]
    /\ UNCHANGED <<tvars, evars, wait, conn, internal_io_handler, running, pending_messages,
                   io_watches, io_timers, match_rules, tcalls, pc, nreq,
                   disc, lastOp>>

\* Connection::dbus_pending_msg_cb, lines 427-435: under pending_msg_mutex the
\* entry is looked up; not found, the function returns; found, the callback is
\* copied out and the entry erased.
dbus_pending_msg_cb_lookup(i) ==
    /\ rpc.at = "notify"
    /\ rpc.id = i
    /\ IF i \in pending_messages
       THEN /\ pending_messages' = pending_messages \ {i}
            /\ rpc' = [rpc EXCEPT !.at = "notify_cb"]
            /\ UNCHANGED req
       ELSE /\ UNCHANGED pending_messages
            /\ rpc' = [at |-> "dispatch", id |-> 0, back |-> "idle"]
            /\ req' = [req EXCEPT ![i] = [@ EXCEPT !.lost = TRUE]]
    /\ UNCHANGED <<tvars, evars, wait, conn, internal_io_handler, running,
                   io_watches, io_timers, match_rules, tcalls, pc, nreq,
                   disc, lastOp>>

\* dbus_pending_msg_cb as it would be if it only released the pending call,
\* as it does for an empty callback.
dbus_pending_msg_cb_invoke_unref(i) ==
    /\ rpc.at = "notify_cb"
    /\ rpc.id = i
    /\ rpc' = [at |-> "dispatch", id |-> 0, back |-> "idle"]
    /\ UNCHANGED <<tvars, evars, wait, conn, internal_io_handler, running,
                   io_watches, io_timers, pending_messages, match_rules,
                   tcalls, pc, req, nreq, disc, lastOp>>

\* Connection::dbus_pending_msg_cb, lines 437-441: the reply is stolen, the
\* pending call released and the callback called.
dbus_pending_msg_cb_invoke(i) ==
    /\ rpc.at = "notify_cb"
    /\ rpc.id = i
    /\ invoke(i, "transport")
    /\ rpc' = [at |-> "callback", id |-> i, back |-> "dispatch"]
    /\ UNCHANGED <<tvars, evars, wait, conn, internal_io_handler, running,
                   io_watches, io_timers, pending_messages, match_rules,
                   tcalls, pc, nreq, disc, lastOp>>

\* A reply callback returns: to the dispatch loop, or out of the send task.
callback_return ==
    /\ rpc.at = "callback"
    /\ rpc' = [at |-> rpc.back, id |-> 0, back |-> "idle"]
    /\ UNCHANGED <<tvars, evars, wait, conn, internal_io_handler, running,
                   io_watches, io_timers, pending_messages, match_rules,
                   tcalls, pc, req, nreq, disc, lastOp>>

\* ------------------------------------------------------------- disconnect

\* Connection::disconnect, lines 176-177: nothing to do without a handle.
disconnect_enter(t) ==
    /\ pc[t] = "idle"
    /\ IF conn = "null"
       THEN UNCHANGED <<pc, disc>>
       ELSE /\ pc' = [pc EXCEPT ![t] = "unref"]
            /\ disc' = IF disc = "no" THEN "called" ELSE disc
    /\ UNCHANGED <<tvars, evars, wait, conn, internal_io_handler, running,
                   io_watches, io_timers, pending_messages, match_rules,
                   tcalls, rpc, req, nreq, lastOp>>

\* lines 179-181: close a private connection, release the handle.
disconnect_unref(t) ==
    /\ pc[t] = "unref"
    /\ conn' = IF conn = "null" THEN "null" ELSE "released"
    /\ pc' = [pc EXCEPT ![t] = "pending"]
    /\ UNCHANGED <<tvars, evars, wait, internal_io_handler, running,
                   io_watches, io_timers, pending_messages, match_rules,
                   tcalls, rpc, req, nreq, disc, lastOp>>

\* lines 183-187: under pending_msg_mutex every pending call is released and
\* the table cleared; no callback is called.
disconnect_pending(t) ==
    /\ pc[t] = "pending"
    /\ req' = [i \in Reqs |->
                 IF i \in pending_messages
                 THEN [req[i] EXCEPT !.dropped = TRUE]
                 ELSE req[i]]
    /\ pending_messages' = {}
    /\ pc' = [pc EXCEPT ![t] = "io"]
    /\ UNCHANGED <<tvars, evars, wait, conn, internal_io_handler, running,
                   io_watches, io_timers, match_rules, tcalls, rpc, nreq,
                   disc, lastOp>>

\* lines 189-194: under io_mutex the watches (their FdConnections with
\* them), the timers (the queued send tasks among them) and the timeouts are
\* cleared.  The transport is not told: a shared connection, which stays
\* alive after dbus_connection_unref, keeps what it added.
disconnect_io(t) ==
    /\ pc[t] = "io"
    /\ io_watches' = {}
    /\ armed' = {}
    /\ io_timers' = {}
    /\ timers' = {}
    /\ io_timeouts' = <<>>
    /\ pc' = [pc EXCEPT ![t] = IF internal_io_handler THEN "stop" ELSE "reset"]
    /\ UNCHANGED <<tvars, wait, conn, internal_io_handler, running,
                   pending_messages, match_rules, tcalls, rpc, req, nreq,
                   disc, lastOp, incoming, enabled, wpc, twatches, ttimeouts,
                   next_timer, mvars, svars>>

\* line 196: ioh->stop(): the worker thread takes no new work.
disconnect_stop(t) ==
    /\ pc[t] = "stop"
    /\ running' = FALSE
    /\ pc' = [pc EXCEPT ![t] = "join"]
    /\ UNCHANGED <<tvars, evars, wait, conn, internal_io_handler, io_watches,
                   io_timers, pending_messages, match_rules, tcalls, rpc, req,
                   nreq, disc, lastOp>>

\* line 197: ioh->join() returns once the worker thread has left the
\* callback it was in.
disconnect_join(t) ==
    /\ pc[t] = "join"
    /\ rpc.at = "idle"
    /\ pc' = [pc EXCEPT ![t] = "reset"]
    /\ UNCHANGED <<tvars, evars, wait, conn, internal_io_handler, running,
                   io_watches, io_timers, pending_messages, match_rules,
                   tcalls, rpc, req, nreq, disc, lastOp>>

\* lines 200-202: the handle is reset and disconnect returns.
disconnect_return(t) ==
    /\ pc[t] = "reset"
    /\ conn' = "null"
    /\ pc' = [pc EXCEPT ![t] = "idle"]
    /\ disc' = "returned"
    /\ UNCHANGED <<tvars, evars, wait, internal_io_handler, running, io_watches, io_timers,
                   pending_messages, match_rules, tcalls, rpc, req, nreq,
                   lastOp>>

\* ------------------------------------------------------------------- Next

\* Every step but the completion of a pending call by the transport.
Steps ==
    \/ \E t \in Callers, ok \in BOOLEAN : connect(t, ok)
    \/ \E t \in Threads, ok \in BOOLEAN : send_cb(t, ok)
    \/ \E i \in Reqs : send_task_begin(i)
    \/ \E i \in Reqs, ok \in BOOLEAN : send_task(i, ok)
    \/ \E i \in Reqs : send_task_reject(i)
    \/ dispatch_begin
    \/ dispatch_end
    \/ \E i \in Reqs : dbus_pending_msg_cb_lookup(i)
    \/ \E i \in Reqs : dbus_pending_msg_cb_invoke(i)
    \/ callback_return
    \/ \E t \in Callers : disconnect_enter(t)
    \/ \E t \in Callers : disconnect_unref(t)
    \/ \E t \in Callers : disconnect_pending(t)
    \/ \E t \in Callers : disconnect_io(t)
    \/ \E t \in Callers : disconnect_stop(t)
    \/ \E t \in Callers : disconnect_join(t)
    \/ \E t \in Callers : disconnect_return(t)

Next ==
    \/ Steps
    \/ \E i \in Reqs, kind \in {"reply", "timeout_error"} : transport_complete(i, kind)

Spec == Init /\ [][Next]_vars

\* The steps the reactor thread takes on its own once it is inside a timer
\* callback or a notify function: the thread runs, so it takes them.
ReactorStep ==
    \/ \E i \in Reqs, ok \in BOOLEAN : send_task(i, ok)
    \/ \E i \in Reqs : send_task_reject(i)
    \/ \E i \in Reqs : dbus_pending_msg_cb_lookup(i)
    \/ \E i \in Reqs : dbus_pending_msg_cb_invoke(i)
    \/ callback_return

\* The reactor thread runs; the multiplexer reports readiness while the
\* transport has something to deliver; the transport completes every pending
\* call, with the peer's reply or, at the latest, with its timeout error.
FairSpec ==
    /\ Spec
    /\ WF_vars(ReactorStep)
    /\ WF_vars(dispatch_begin)
    /\ \A i \in Reqs :
         SF_vars(\E kind \in {"reply", "timeout_error"} : transport_complete(i, kind))

\* ------------------------------------------------ fire-and-forget, matches

\* Connection::send(msg): dbus_connection_send on the calling thread.
send(t) ==
    /\ AppRuns(t)
    /\ lastOp' = Op("send", "dbus_connection_send", t)
    /\ UNCHANGED <<tvars, evars, wait, conn, internal_io_handler, running,
                   io_watches, io_timers, pending_messages, match_rules,
                   tcalls, rpc, pc, req, nreq, disc>>

\* MessageHandler::add_match_rule, under match_rule_mutex: nothing for a rule
\* already present; otherwise dbus_bus_add_match when same_context() is false
\* and an AddMatch message through Connection::send(msg) when it is true.
add_match_rule(t, rule) ==
    /\ AppRuns(t)
    /\ rule \notin match_rules
    /\ lastOp' = IF same_context(t) = FALSE
                 THEN Op("add_match_rule", "dbus_bus_add_match", t)
                 ELSE Op("add_match_rule", "dbus_connection_send", t)
    /\ match_rules' = match_rules \cup {rule}
    /\ UNCHANGED <<tvars, evars, wait, conn, internal_io_handler, running,
                   io_watches, io_timers, pending_messages, tcalls, rpc, pc,
                   req, nreq, disc>>

\* MessageHandler::remove_match_rule, under match_rule_mutex: nothing for a
\* rule not present; otherwise dbus_bus_remove_match when same_context() is
\* false and a RemoveMatch message through Connection::send(msg) when true.
remove_match_rule(t, rule) ==
    /\ AppRuns(t)
    /\ rule \in match_rules
    /\ lastOp' = IF same_context(t) = FALSE
                 THEN Op("remove_match_rule", "dbus_bus_remove_match", t)
                 ELSE Op("remove_match_rule", "dbus_connection_send", t)
    /\ match_rules' = match_rules \ {rule}
    /\ UNCHANGED <<tvars, evars, wait, conn, internal_io_handler, running,
                   io_watches, io_timers, pending_messages, tcalls, rpc, pc,
                   req, nreq, disc>>

OpsNext ==
    \/ Next
    \/ \E t \in Threads : send(t)
    \/ \E t \in Threads, rule \in Rules : add_match_rule(t, rule)
    \/ \E t \in Threads, rule \in Rules : remove_match_rule(t, rule)

OpsSpec == Init /\ [][OpsNext]_vars

TypeOK ==
    /\ conn \in {"null", "open", "released"}
    /\ pending_messages \subseteq Reqs
    /\ io_timers \subseteq Reqs
    /\ tcalls \subseteq Reqs
    /\ nreq \in 0..MaxReq

\* ------------------------------------------------ a peer that never replies

\* The peer replies to no request: the transport completes a pending call
\* only with its own timeout error, from the timer callback that
\* dbus_add_timeout_cb set for the call's timeout (dbus_timeout_handle, then
\* dbus_connection_dispatch).
TimeoutNext ==
    \/ Steps
    \/ \E i \in Reqs : transport_complete(i, "timeout_error")

TimeoutSpec == Init /\ [][TimeoutNext]_vars

\* The reactor thread runs, the timer set reports the expiry while a call is
\* pending, and the timeout of every pending call expires.
TimeoutFairSpec ==
    /\ TimeoutSpec
    /\ WF_vars(ReactorStep)
    /\ WF_vars(dispatch_begin)
    /\ \A i \in Reqs : SF_vars(transport_complete(i, "timeout_error"))

\* ------------------------------------------- send_and_wait and handshake

\* Connection::send_and_wait(msg, timeout) called by a caller thread: send
\* with the one-shot callback, which returns 0 on a thread other than the
\* reactor, and then the wait for got_reply.
send_and_wait(t) ==
    /\ pc[t] = "idle"
    /\ wait[t].api \in {"none", "returned"}
    /\ nreq < MaxReq
    /\ nreq' = nreq + 1
    /\ send_deferred(nreq + 1)
    /\ wait' = [wait EXCEPT ![t] = [api |-> "send_and_wait", id |-> nreq + 1,
                                    ret |-> "none"]]
    /\ pc' = [pc EXCEPT ![t] = "wait"]
    /\ UNCHANGED <<tvars, evars, conn, internal_io_handler, running, io_watches,
                   match_rules, rpc, disc>>

\* got_reply of the send_and_wait call thread t is in: the callback of its
\* request has run; it stores the reply it was called with (lines 295-301).
got_reply(t) == req[wait[t].id].cb > 0

\* send_and_wait as it would be if it returned its reply object without
\* waiting for got_reply.
send_and_wait_return_early(t) ==
    /\ pc[t] = "wait"
    /\ wait[t].api = "send_and_wait"
    /\ wait' = [wait EXCEPT ![t] = [api |-> "returned", id |-> @.id,
                                    ret |-> req[@.id].reply]]
    /\ pc' = [pc EXCEPT ![t] = "idle"]
    /\ UNCHANGED <<tvars, evars, conn, internal_io_handler, running, io_watches,
                   io_timers, pending_messages, match_rules, tcalls, rpc, req,
                   nreq, disc, lastOp>>

\* Lines 313-317: the wait ends once got_reply is set, and the stored reply
\* is returned.
send_and_wait_return(t) ==
    /\ pc[t] = "wait"
    /\ wait[t].api = "send_and_wait"
    /\ got_reply(t)
    /\ wait' = [wait EXCEPT ![t] = [api |-> "returned", id |-> @.id,
                                    ret |-> req[@.id].reply]]
    /\ pc' = [pc EXCEPT ![t] = "idle"]
    /\ UNCHANGED <<tvars, evars, conn, internal_io_handler, running, io_watches,
                   io_timers, pending_messages, match_rules, tcalls, rpc, req,
                   nreq, disc, lastOp>>

\* Connection::connect(bus_address, timeout, ...), lines 112-140: the
\* connection is opened, the dispatcher started and the Hello message sent
\* with send_and_wait.
connect_address(t, ok) ==
    /\ pc[t] = "idle"
    /\ wait[t].api = "none"
    /\ conn = "null"
    /\ disc = "no"
    /\ IF ok
       THEN /\ conn' = "open"
            /\ start_message_dispatcher
            /\ nreq < MaxReq
            /\ nreq' = nreq + 1
            /\ send_deferred(nreq + 1)
            /\ wait' = [wait EXCEPT ![t] = [api |-> "connect", id |-> nreq + 1,
                                            ret |-> "none"]]
            /\ pc' = [pc EXCEPT ![t] = "wait"]
       ELSE UNCHANGED <<conn, running, io_watches, nreq, io_timers, req,
                        pending_messages, tcalls, lastOp, wait, pc>>
    /\ UNCHANGED <<tvars, evars, internal_io_handler, match_rules, rpc, disc>>

\* Lines 140-160: the reply to Hello has come.  A good reply, one that is not
\* an error and carries a non-empty bus id, makes connect return 0.  Any
\* other makes it call disconnect(), which returns at once without a handle
\* and otherwise goes on as every disconnect() does, and return -1.
connect_reply(t, good) ==
    /\ pc[t] = "wait"
    /\ wait[t].api = "connect"
    /\ got_reply(t)
    /\ good => req[wait[t].id].reply # "local_error"
    /\ IF good
       THEN /\ wait' = [wait EXCEPT ![t].api = "connected"]
            /\ pc' = [pc EXCEPT ![t] = "idle"]
            /\ UNCHANGED disc
       ELSE IF conn = "null"
            THEN /\ wait' = [wait EXCEPT ![t].api = "failed"]
                 /\ pc' = [pc EXCEPT ![t] = "idle"]
                 /\ UNCHANGED disc
            ELSE /\ wait' = [wait EXCEPT ![t].api = "disconnecting"]
                 /\ pc' = [pc EXCEPT ![t] = "unref"]
                 /\ disc' = IF disc = "no" THEN "called" ELSE disc
    /\ UNCHANGED <<tvars, evars, conn, internal_io_handler, running, io_watches,
                   io_timers, pending_messages, match_rules, tcalls, rpc, req,
                   nreq, lastOp>>

WaitNext ==
    \/ Next
    \/ \E t \in Callers : send_and_wait(t)
    \/ \E t \in Callers : send_and_wait_return(t)
    \/ \E t \in Callers, ok \in BOOLEAN : connect_address(t, ok)
    \/ \E t \in Callers, good \in BOOLEAN : connect_reply(t, good)

WaitSpec == Init /\ [][WaitNext]_vars

\* The steps a caller thread takes on its own once it is inside
\* disconnect(), send_and_wait or connect: the thread runs.
CallerStep(t) ==
    \/ disconnect_unref(t)
    \/ disconnect_pending(t)
    \/ disconnect_io(t)
    \/ disconnect_stop(t)
    \/ disconnect_join(t)
    \/ disconnect_return(t)
    \/ send_and_wait_return(t)
    \/ \E good \in BOOLEAN : connect_reply(t, good)

\* Every thread runs, a due timer fires, the multiplexer reports readiness
\* and the transport completes every pending call.
WaitFairSpec ==
    /\ WaitSpec
    /\ WF_vars(ReactorStep)
    /\ WF_vars(dispatch_begin)
    /\ WF_vars(\E i \in Reqs : send_task_begin(i))
    /\ \A t \in Callers : WF_vars(CallerStep(t))
    /\ \A i \in Reqs :
         SF_vars(\E kind \in {"reply", "timeout_error"} : transport_complete(i, kind))

\* ------------------------------------------------------ readiness handlers

\* Messages the transport holds in its incoming queue at most.
MaxQueue == 2

Min(a, b) == IF a < b THEN a ELSE b

\* Connection::connect up to dbus_connection_set_watch_functions: the
\* transport is open and goes on to add its watches one by one.
set_watch_functions(t) ==
    /\ pc[t] = "idle"
    /\ conn = "null"
    /\ disc = "no"
    /\ conn' = "open"
    /\ running' = TRUE
    /\ UNCHANGED <<tvars, evars, wait, internal_io_handler, io_watches,
                   io_timers, pending_messages, match_rules, tcalls, rpc, pc,
                   req, nreq, disc, lastOp>>

\* dbus_watch_handle(watch, flags): the transport reads or writes; k messages
\* enter its incoming queue (messages read from the socket, or the
\* Disconnected signal it queues when the read or the write fails).
dbus_watch_handle(k) == incoming' = Min(incoming + k, MaxQueue)

\* Connection::on_watch_rx_ready, lines 374-375: the one-shot callback of the
\* read watch fires and the transport reads.
on_watch_rx_ready(k) ==
    /\ wpc.at = "idle"
    /\ "read_watch" \in armed
    /\ armed' = armed \ {"read_watch"}
    /\ dbus_watch_handle(k)
    /\ wpc' = [at |-> "dispatch", watch |-> "read_watch"]
    /\ UNCHANGED <<cvars, wait, tvars, twatches, rvars, mvars, svars, enabled>>

\* One turn of the loop of lines 375-376: dbus_connection_dispatch hands over
\* one message and reports whether data remains.
dbus_connection_dispatch ==
    /\ wpc.at = "dispatch"
    /\ incoming' = IF incoming > 0 THEN incoming - 1 ELSE 0
    /\ wpc' = IF incoming' > 0 THEN wpc ELSE [wpc EXCEPT !.at = "rearm"]
    /\ UNCHANGED <<cvars, wait, tvars, twatches, rvars, mvars, svars, enabled, armed>>

\* Connection::on_watch_tx_ready, line 401: the one-shot callback of the
\* write watch fires and the transport writes; nothing is dispatched.
on_watch_tx_ready(k) ==
    /\ wpc.at = "idle"
    /\ "write_watch" \in armed
    /\ armed' = armed \ {"write_watch"}
    /\ dbus_watch_handle(k)
    /\ wpc' = [at |-> "rearm", watch |-> "write_watch"]
    /\ UNCHANGED <<cvars, wait, tvars, twatches, rvars, mvars, svars, enabled>>

\* The end of both handlers (lines 378-391, 403-416), under io_mutex: a watch
\* still known and enabled waits again.
rearm ==
    /\ wpc.at = "rearm"
    /\ armed' = IF wpc.watch \in io_watches /\ enabled[wpc.watch]
                THEN armed \cup {wpc.watch}
                ELSE armed
    /\ wpc' = NoHandler
    /\ UNCHANGED <<cvars, wait, tvars, twatches, rvars, mvars, svars, incoming, enabled>>

\* Connection::dbus_add_watch_cb, under io_mutex: the transport adds a watch;
\* an enabled one waits at once.
dbus_add_watch_cb(w, e) ==
    /\ conn = "open"
    /\ w \notin twatches
    /\ twatches' = twatches \cup {w}
    /\ io_watches' = io_watches \cup {w}
    /\ enabled' = [enabled EXCEPT ![w] = e]
    /\ armed' = IF e THEN armed \cup {w} ELSE armed
    /\ UNCHANGED <<conn, internal_io_handler, running, io_timers,
                   pending_messages, match_rules, tcalls, rpc, pc, req, nreq,
                   disc, lastOp, wait, tvars, incoming, wpc, rvars, mvars, svars>>

\* Connection::dbus_remove_watch_cb, under io_mutex: the entry is erased and
\* its FdConnection with it.
dbus_remove_watch_cb(w) ==
    /\ w \in twatches
    /\ twatches' = twatches \ {w}
    /\ io_watches' = io_watches \ {w}
    /\ armed' = armed \ {w}
    /\ UNCHANGED <<conn, internal_io_handler, running, io_timers,
                   pending_messages, match_rules, tcalls, rpc, pc, req, nreq,
                   disc, lastOp, wait, tvars, incoming, enabled, wpc, rvars, mvars, svars>>

\* Connection::dbus_toggled_watch_cb, under io_mutex: the transport enabled
\* or disabled a watch; a known watch waits or is cancelled.
dbus_toggled_watch_cb(w) ==
    /\ conn = "open"
    /\ enabled' = [enabled EXCEPT ![w] = ~@]
    /\ armed' = IF w \notin io_watches
                THEN armed
                ELSE IF enabled'[w] THEN armed \cup {w} ELSE armed \ {w}
    /\ UNCHANGED <<cvars, wait, tvars, twatches, rvars, mvars, svars, incoming, wpc>>

WatchNext ==
    \/ \E t \in Callers : set_watch_functions(t)
    \/ \E k \in 0..MaxQueue : on_watch_rx_ready(k)
    \/ dbus_connection_dispatch
    \/ \E k \in 0..1 : on_watch_tx_ready(k)
    \/ rearm
    \/ \E w \in WatchIds, e \in BOOLEAN : dbus_add_watch_cb(w, e)
    \/ \E w \in WatchIds : dbus_remove_watch_cb(w)
    \/ \E w \in WatchIds : dbus_toggled_watch_cb(w)

WatchSpec == Init /\ [][WatchNext]_vars

\* ----------------------------------------------------------- typed values

\* Largest number of elements put into one container.
MaxLen == 2

Keys == {"a", "b"}

\* A dbus_type is a record: its kind (the class), its cached signature sig
\* and the members of the class.  Signatures are strings, as in the code.
dbus_basic(signature, value) ==
    [kind |-> "basic", sig |-> signature, val |-> value]

\* The strings assigned to a basic value, and the texts of the low byte of
\* the address of its str_val buffer; one of them is also a string assigned.
Texts    == {"x", "P"}
LowBytes == {"P", "h"}

\* dbus_basic::operator=(string): a value that is not a string, an object
\* path or a signature gets the signature of a BYTE; str_val and val.str
\* take the string.  str() of a BYTE prints val.byt, the member of the
\* union that shares its storage with the pointer val.str.
dbus_basic_assign(this, value) ==
    IF this.sig \notin {"s", "o", "g"}
    THEN {[this EXCEPT !.sig = "y", !.val = b] : b \in LowBytes}
    ELSE {[this EXCEPT !.val = value]}

\* dbus_struct::dbus_struct()
dbus_struct == [kind |-> "struct", sig |-> "()", elements |-> <<>>]

\* dbus_array::dbus_array()
dbus_array ==
    [kind |-> "array", sig |-> "a", element_sig |-> "", elements |-> <<>>]

\* dbus_array::dbus_array(element_signature)
dbus_array_of(element_signature) ==
    [kind |-> "array", sig |-> "a" \o element_signature,
     element_sig |-> element_signature, elements |-> <<>>]

\* dbus_dict_entry::dbus_dict_entry()
dbus_dict_entry ==
    [kind |-> "dict_entry", sig |-> "{}", dict_key |-> Null,
     dict_value |-> Null]

\* dbus_variant::dbus_variant()
dbus_variant == [kind |-> "variant", sig |-> "v", val |-> Null]

\* Properties::Properties()
Properties == [kind |-> "properties", props |-> dbus_array_of("{sv}")]

\* What an operation on a typed value gives back: the object afterwards and
\* the value returned or the exception thrown.
Result(this, ret) == [this |-> this, ret |-> ret, exc |-> "none"]

Throw(this, what) == [this |-> this, ret |-> 0, exc |-> what]

\* dbus_dict_entry::key_signature, value_signature
key_signature(this) ==
    IF this.dict_key = Null THEN "" ELSE this.dict_key.sig

value_signature(this) ==
    IF this.dict_value = Null THEN "" ELSE this.dict_value.sig

RECURSIVE clone_dbus_type(_)
RECURSIVE dbus_struct_add_all(_, _)
RECURSIVE dbus_array_add_all(_, _)

\* dbus_struct::add: the clone is appended and its signature is put before
\* the closing parenthesis of sig.
dbus_struct_add(this, t) ==
    LET element == clone_dbus_type(t)
    IN  [this EXCEPT !.elements = Append(@, element),
                     !.sig = SubSeq(@, 1, Len(@) - 1) \o element.sig \o ")"]

\* The loop of dbus_struct::copy: add(*element) for each element.
dbus_struct_add_all(this, es) ==
    IF es = <<>>
    THEN this
    ELSE dbus_struct_add_all(dbus_struct_add(this, Head(es)), Tail(es))

\* dbus_array::add as it would be if an element of another signature were
\* appended like any other.
dbus_array_add_any(this, element) ==
    IF this.element_sig = ""
    THEN Result([this EXCEPT !.element_sig = element.sig,
                             !.sig = "a" \o element.sig,
                             !.elements = Append(@, clone_dbus_type(element))],
                0)
    ELSE Result([this EXCEPT
                   !.elements = Append(@, clone_dbus_type(element))], 0)

\* dbus_array::add: the first element of an untyped array sets element_sig;
\* an element of another signature is refused with -1.
dbus_array_add(this, element) ==
    IF this.element_sig = ""
    THEN Result([this EXCEPT !.element_sig = element.sig,
                             !.sig = "a" \o element.sig,
                             !.elements = Append(@, clone_dbus_type(element))],
                0)
    ELSE IF this.element_sig # element.sig
         THEN Result(this, -1)
         ELSE Result([this EXCEPT
                        !.elements = Append(@, clone_dbus_type(element))], 0)

\* dbus_array::can_add
dbus_array_can_add(this, element) ==
    this.elements = <<>> \/ element.sig = this.element_sig

\* The loop of dbus_array::copy: add(*element) for each element, the value
\* it returns being ignored.
dbus_array_add_all(this, es) ==
    IF es = <<>>
    THEN this
    ELSE dbus_array_add_all(dbus_array_add(this, Head(es)).this, Tail(es))

\* The body of dbus_struct::copy after its check.
dbus_struct_copy(this, obj) ==
    dbus_struct_add_all([this EXCEPT !.sig = "()", !.elements = <<>>],
                        obj.elements)

\* The body of dbus_array::copy after its check.
dbus_array_copy(this, obj) ==
    dbus_array_add_all([this EXCEPT !.sig = obj.sig,
                                    !.element_sig = obj.element_sig,
                                    !.elements = <<>>],
                       obj.elements)

\* The body of dbus_dict_entry::copy after its check.
dbus_dict_entry_copy(this, obj) ==
    LET k == obj.dict_key
        v == IF obj.dict_value = Null
             THEN Null
             ELSE clone_dbus_type(obj.dict_value)
    IN  [this EXCEPT !.dict_key = k,
                     !.dict_value = v,
                     !.sig = "{" \o (IF k = Null THEN "" ELSE k.sig)
                                 \o (IF v = Null THEN "" ELSE v.sig) \o "}"]

\* dbus_variant::copy: the value of a variant, or the object itself, is
\* cloned.  Copying a variant whose val is null dereferences the null
\* pointer (copies_null).
dbus_variant_copy(this, obj) ==
    IF obj.kind = "variant"
    THEN [this EXCEPT !.val = clone_dbus_type(obj.val)]
    ELSE [this EXCEPT !.val = clone_dbus_type(obj)]

\* clone_dbus_type(const dbus_type&): a new object of the same class made by
\* its copy constructor.
clone_dbus_type(mt) ==
    CASE mt.kind = "basic"      -> mt
      [] mt.kind = "struct"     -> dbus_struct_copy(dbus_struct, mt)
      [] mt.kind = "array"      -> dbus_array_copy(dbus_array, mt)
      [] mt.kind = "dict_entry" -> dbus_dict_entry_copy(dbus_dict_entry, mt)
      [] mt.kind = "variant"    -> dbus_variant_copy(dbus_variant, mt)

\* clone_dbus_type reaches dbus_variant::copy with a variant whose val is
\* null: *rhs.val is then a reference to no object.
RECURSIVE copies_null(_)
copies_null(mt) ==
    CASE mt.kind = "basic"      -> FALSE
      [] mt.kind = "struct"     ->
           \E n \in 1..Len(mt.elements) : copies_null(mt.elements[n])
      [] mt.kind = "array"      ->
           \E n \in 1..Len(mt.elements) : copies_null(mt.elements[n])
      [] mt.kind = "dict_entry" ->
           mt.dict_value # Null /\ copies_null(mt.dict_value)
      [] mt.kind = "variant"    -> mt.val = Null \/ copies_null(mt.val)

\* What clone_dbus_type(mt) gives back.  typeid of a reference to no object
\* is undefined: the build throws std::bad_typeid or reads the vtable
\* pointer at address 0.
clone_outcomes(mt) ==
    IF copies_null(mt)
    THEN {Throw(mt, "bad_typeid"), Throw(mt, "SIGSEGV")}
    ELSE {Result(mt, clone_dbus_type(mt))}

\* str() returns: dbus_dict_entry::str calls dict_key->str() and
\* dict_value->str() without looking at the pointers.
RECURSIVE str_returns(_)
str_returns(mt) ==
    CASE mt.kind = "basic"      -> TRUE
      [] mt.kind = "struct"     ->
           \A n \in 1..Len(mt.elements) : str_returns(mt.elements[n])
      [] mt.kind = "array"      ->
           \A n \in 1..Len(mt.elements) : str_returns(mt.elements[n])
      [] mt.kind = "dict_entry" ->
           /\ mt.dict_key # Null
           /\ mt.dict_value # Null
           /\ str_returns(mt.dict_value)
      [] mt.kind = "variant"    -> mt.val = Null \/ str_returns(mt.val)

\* The texts of the elements with a comma between them.
RECURSIVE str(_)
RECURSIVE strs(_)
strs(es) ==
    IF es = <<>> THEN ""
    ELSE IF Len(es) = 1 THEN str(Head(es))
    ELSE str(Head(es)) \o "," \o strs(Tail(es))

\* dbus_type::str() of each class, where it returns.
str(mt) ==
    CASE mt.kind = "basic"      -> mt.val
      [] mt.kind = "struct"     -> "(" \o strs(mt.elements) \o ")"
      [] mt.kind = "array"      -> "{" \o strs(mt.elements) \o "}"
      [] mt.kind = "dict_entry" ->
           "(" \o str(mt.dict_key) \o "," \o str(mt.dict_value) \o ")"
      [] mt.kind = "variant"    -> IF mt.val = Null THEN "" ELSE str(mt.val)

\* dbus_type::operator=(const dbus_type&): the virtual copy of the class of
\* the receiver; each refuses an object of another class (a variant takes
\* any).
copy(this, obj) ==
    CASE this.kind = "basic" ->
           IF obj.kind # "basic"
           THEN Throw(this, "invalid_argument")
           ELSE Result(obj, 0)
      [] this.kind = "struct" ->
           IF obj.kind # "struct"
           THEN Throw(this, "invalid_argument")
           ELSE Result(dbus_struct_copy(this, obj), 0)
      [] this.kind = "array" ->
           IF obj.kind # "array"
           THEN Throw(this, "invalid_argument")
           ELSE Result(dbus_array_copy(this, obj), 0)
      [] this.kind = "dict_entry" ->
           IF obj.kind # "dict_entry"
           THEN Throw(this, "invalid_argument")
           ELSE Result(dbus_dict_entry_copy(this, obj), 0)
      [] this.kind = "variant" ->
           Result(dbus_variant_copy(this, obj), 0)

\* dbus_type::operator=(dbus_type&&): the virtual move of the class of the
\* receiver.  It gives back the receiver, the moved-from object and the
\* outcome.  dbus_struct::move tests is_dict_entry(): a struct operand is
\* refused, and a dict entry operand fails the cast to dbus_struct.
Moved(this, obj, exc) == [this |-> this, obj |-> obj, exc |-> exc]

move(this, obj) ==
    CASE this.kind = "basic" ->
           IF obj.kind # "basic"
           THEN Moved(this, obj, "invalid_argument")
           ELSE Moved(obj, dbus_basic("i", "0"), "none")
      [] this.kind = "struct" ->
           IF obj.kind # "dict_entry"
           THEN Moved(this, obj, "invalid_argument")
           ELSE Moved(this, obj, "bad_cast")
      [] this.kind = "array" ->
           IF obj.kind # "array"
           THEN Moved(this, obj, "invalid_argument")
           ELSE Moved([this EXCEPT !.sig = obj.sig,
                                   !.element_sig = obj.element_sig,
                                   !.elements = obj.elements],
                      [obj EXCEPT !.sig = "a",
                                  !.element_sig = "",
                                  !.elements = <<>>],
                      "none")
      [] this.kind = "dict_entry" ->
           IF obj.kind # "dict_entry"
           THEN Moved(this, obj, "invalid_argument")
           ELSE Moved([this EXCEPT !.dict_key = obj.dict_key,
                                   !.dict_value = obj.dict_value,
                                   !.sig = obj.sig],
                      [obj EXCEPT !.dict_key = Null,
                                  !.dict_value = Null,
                                  !.sig = "{}"],
                      "none")
      [] this.kind = "variant" ->
           IF obj.kind = "variant"
           THEN Moved([this EXCEPT !.val = obj.val],
                      [obj EXCEPT !.val = Null], "none")
           ELSE Moved([this EXCEPT !.val = clone_dbus_type(obj)], obj, "none")

\* std::vector::erase of the element at index n (from 0).
erase(elements, n) ==
    SubSeq(elements, 1, n) \o SubSeq(elements, n + 2, Len(elements))

\* The signatures of the elements, one after the other.
RECURSIVE signatures(_)
signatures(es) ==
    IF es = <<>> THEN "" ELSE Head(es).sig \o signatures(Tail(es))

\* dbus_struct::remove: begin()+n == end() throws; otherwise the element is
\* erased and sig rebuilt from the elements.
dbus_struct_remove(this, n) ==
    IF n = Len(this.elements)
    THEN Throw(this, "out_of_range")
    ELSE LET es == erase(this.elements, n)
         IN  Result([this EXCEPT !.elements = es,
                                 !.sig = "(" \o signatures(es) \o ")"], 0)

\* dbus_array::remove: begin()+n == end() returns -1; otherwise the element
\* is erased.
dbus_array_remove(this, n) ==
    IF n = Len(this.elements)
    THEN Result(this, -1)
    ELSE Result([this EXCEPT !.elements = erase(@, n)], 0)

\* remove(n) of a struct or an array.  With n > size() the iterator
\* begin()+n is past end(), the comparison with end() is false and the
\* iterator is erased, which is undefined: std::vector::erase moves no
\* element and destroys the last one, or the process ends in a fault (the
\* only outcome for an empty vector).
remove_outcomes(this, n) ==
    LET defined == IF this.kind = "struct"
                   THEN dbus_struct_remove(this, n)
                   ELSE dbus_array_remove(this, n)
        size    == Len(this.elements)
    IN  IF n <= size
        THEN {defined}
        ELSE {Throw(this, "SIGSEGV")} \cup
             (IF size = 0
              THEN {}
              ELSE {IF this.kind = "struct"
                    THEN dbus_struct_remove(this, size - 1)
                    ELSE dbus_array_remove(this, size - 1)})

\* dbus_array::clear() as it would be if it kept the type of the elements.
dbus_array_clear_keep(this) ==
    [this EXCEPT !.elements = <<>>]

\* dbus_array::clear()
dbus_array_clear(this) ==
    [this EXCEPT !.elements = <<>>, !.element_sig = "", !.sig = "a"]

\* dbus_dict_entry::key(key)
dbus_dict_entry_key(this, k) ==
    [this EXCEPT !.dict_key = k,
                 !.sig = "{" \o k.sig \o value_signature(this) \o "}"]

\* dbus_dict_entry::value(value)
dbus_dict_entry_value(this, v) ==
    LET c == clone_dbus_type(v)
    IN  [this EXCEPT !.dict_value = c,
                     !.sig = "{" \o key_signature(this) \o c.sig \o "}"]

\* dbus_dict_entry::dbus_dict_entry(key, value): set(key, value)
dbus_dict_entry_set(k, v) ==
    dbus_dict_entry_value([dbus_dict_entry EXCEPT !.dict_key = k], v)

\* dbus_variant::value(new_value): the value of a variant, or the object
\* itself, is cloned.
dbus_variant_value(this, new_value) ==
    IF new_value.kind = "variant"
    THEN [this EXCEPT !.val = clone_dbus_type(new_value.val)]
    ELSE [this EXCEPT !.val = clone_dbus_type(new_value)]

\* dbus_array::operator[] / dbus_struct::operator[] followed by an
\* assignment to the reference: the element is assigned in place, the
\* container itself is not told.
assign(this, n, e) ==
    IF n >= Len(this.elements)
    THEN Throw(this, "out_of_range")
    ELSE LET r == copy(this.elements[n + 1], e)
         IN  [r EXCEPT !.this = [this EXCEPT !.elements[n + 1] = r.this]]

\* ------------------------------------------------------------- Properties

\* The name of entry i of props (from 0): entry.key().str()
name(this, i) == this.props.elements[i + 1].dict_key.val

\* The index of the first entry the loop stops at, or props.size(): the loop
\* stops at an entry whose name equals property (equal) or differs from it.
first(this, property, equal) ==
    LET hits == {i \in 0..(Len(this.props.elements) - 1) :
                    (name(this, i) = property) = equal}
    IN  IF hits = {}
        THEN Len(this.props.elements)
        ELSE CHOOSE i \in hits : \A j \in hits : i <= j

\* Properties::set: the variant of the first entry named property gets the
\* value; without such an entry a new one is added.
Properties_set(this, property, value) ==
    LET i == first(this, property, TRUE)
        v == dbus_variant_copy(dbus_variant, value)
    IN  IF i = Len(this.props.elements)
        THEN [this EXCEPT !.props =
                dbus_array_add(@, dbus_dict_entry_set(
                                      dbus_basic("s", property), v)).this]
        ELSE [this EXCEPT !.props.elements[i + 1].dict_value = v]

\* Properties::remove: the loop stops at the first entry whose name is
\* not property (line 253) and removes that entry.
Properties_remove(this, property) ==
    LET i == first(this, property, FALSE)
    IN  IF i = Len(this.props.elements)
        THEN this
        ELSE [this EXCEPT !.props = dbus_array_remove(@, i).this]

\* Properties::get: the value of the first entry named property_name is
\* assigned to value; -1 without such an entry, or when a value that is not
\* basic meets one of another type.
Properties_get(this, property_name, value) ==
    LET i == first(this, property_name, TRUE)
    IN  IF i = Len(this.props.elements)
        THEN Result(value, -1)
        ELSE LET val == this.props.elements[i + 1].dict_value.val
             IN  IF (val.kind # "basic" \/ value.kind # "basic")
                    /\ val.kind # value.kind
                 THEN Result(value, -1)
                 ELSE Result(copy(value, val).this, 0)

\* ------------------------------------------- operations on typed values

Int32  == dbus_basic("i", "0")
String == dbus_basic("s", "x")

\* The values given to the operations: two basic values of different
\* signature and a struct.
Elements == {Int32, String, dbus_struct_add(dbus_struct, Int32)}

\* A variant holding a value.
Boxed == dbus_variant_value(dbus_variant, Int32)

SeqsUpTo(S, n) == UNION {[1..m -> S] : m \in 0..n}

\* The values the second object can have been built to by its class's
\* constructors and add.
Operands(this) ==
    CASE this.kind = "struct" ->
           {dbus_struct_add_all(dbus_struct, es) : es \in SeqsUpTo(Elements, MaxLen)}
      [] this.kind = "array" ->
           {dbus_array_add_all(dbus_array, es) : es \in SeqsUpTo(Elements, MaxLen)}
      [] this.kind = "dict_entry" ->
           {dbus_dict_entry} \cup
           {dbus_dict_entry_set(dbus_basic("s", k), v) : k \in Keys, v \in Elements}
      [] this.kind = "variant" ->
           {dbus_variant} \cup
           {dbus_variant_value(dbus_variant, v) : v \in Elements}
      [] this.kind = "properties" -> {Null}
      [] this.kind = "basic" -> {Null}

Call(op, arg, r) == [op |-> op, arg |-> arg, ret |-> r.ret, exc |-> r.exc]

\* The application makes an empty object of one class and has a second
\* object of that class.
ValInit ==
    /\ Connection
    /\ NoEvents
    /\ dst \in {dbus_struct, dbus_array, dbus_dict_entry, dbus_variant, Properties,
               Int32, String, dbus_basic("o", "/obj")}
    /\ src \in Operands(dst)
    /\ last = NoCall

\* A process ended by a fault makes no further call.
Alive == last.exc # "SIGSEGV"

\* dst.add(e)
add(e) ==
    /\ Alive
    /\ dst.kind \in {"struct", "array"}
    /\ Len(dst.elements) < MaxLen
    /\ LET r == IF dst.kind = "struct"
                THEN Result(dbus_struct_add(dst, e), 0)
                ELSE dbus_array_add(dst, e)
       IN  /\ dst' = r.this
           /\ last' = Call("add", e, r)
    /\ UNCHANGED <<cvars, evars, wait, src>>

\* dst.remove(n)
remove(n) ==
    /\ Alive
    /\ dst.kind \in {"struct", "array"}
    /\ \E r \in remove_outcomes(dst, n) :
         /\ dst' = r.this
         /\ last' = Call("remove", n, r)
    /\ UNCHANGED <<cvars, evars, wait, src>>

\* dst.clear()
clear ==
    /\ Alive
    /\ dst.kind = "array"
    /\ dst' = dbus_array_clear(dst)
    /\ last' = Call("clear", 0, Result(dst, 0))
    /\ UNCHANGED <<cvars, evars, wait, src>>

\* dst[n] = e
subscript(n, e) ==
    /\ Alive
    /\ dst.kind \in {"struct", "array"}
    /\ LET r == assign(dst, n, e)
       IN  /\ dst' = r.this
           /\ last' = Call("subscript", n, r)
    /\ UNCHANGED <<cvars, evars, wait, src>>

\* dst.key(dbus_basic(k))
key(k) ==
    /\ Alive
    /\ dst.kind = "dict_entry"
    /\ dst' = dbus_dict_entry_key(dst, dbus_basic("s", k))
    /\ last' = Call("key", k, Result(dst, 0))
    /\ UNCHANGED <<cvars, evars, wait, src>>

\* dst.value(v)
value(v) ==
    /\ Alive
    /\ dst.kind \in {"dict_entry", "variant"}
    /\ dst' = IF dst.kind = "dict_entry"
              THEN dbus_dict_entry_value(dst, v)
              ELSE dbus_variant_value(dst, v)
    /\ last' = Call("value", v, Result(dst, 0))
    /\ UNCHANGED <<cvars, evars, wait, src>>

\* dst = src
copy_assignment ==
    /\ Alive
    /\ dst.kind \in {"struct", "array", "dict_entry", "variant"}
    /\ dst.kind = "variant" => src.val # Null
    /\ LET r == copy(dst, src)
       IN  /\ dst' = r.this
           /\ last' = Call("copy", 0, r)
    /\ UNCHANGED <<cvars, evars, wait, src>>

\* dst = std::move(src)
move_assignment ==
    /\ Alive
    /\ dst.kind \in {"struct", "array", "dict_entry", "variant"}
    /\ LET r == move(dst, src)
       IN  /\ dst' = r.this
           /\ src' = r.obj
           /\ last' = [op |-> "move", arg |-> 0, ret |-> 0, exc |-> r.exc]
    /\ UNCHANGED <<cvars, evars, wait>>

\* dst.set(k, v); src keeps the value given.
set(k, v) ==
    /\ Alive
    /\ dst.kind = "properties"
    /\ dst' = Properties_set(dst, k, v)
    /\ src' = v
    /\ last' = Call("Properties::set", k, Result(dst, 0))
    /\ UNCHANGED <<cvars, evars, wait>>

\* dst.remove(k)
remove_property(k) ==
    /\ Alive
    /\ dst.kind = "properties"
    /\ dst' = Properties_remove(dst, k)
    /\ last' = Call("Properties::remove", k, Result(dst, 0))
    /\ UNCHANGED <<cvars, evars, wait, src>>

\* dst.get(k, value) with a basic value to receive the property
get(k) ==
    /\ Alive
    /\ dst.kind = "properties"
    /\ last' = Call("Properties::get", k, Properties_get(dst, k, Int32))
    /\ UNCHANGED <<cvars, evars, wait, dst, src>>

\* What append_dbus_type_base_impl does to the message: the calls made on
\* the iterator, in order (the type of each basic value appended, the
\* container type of each container opened, "close" for each one closed),
\* and the exception or fault that ended it.
Appended(wire, exc) == [wire |-> wire, exc |-> exc]

RECURSIVE append_dbus_type_base_impl(_, _)
RECURSIVE append_each(_, _)

\* The loops over the members of a container: they stop where a member
\* throws.
append_each(es, early) ==
    IF es = <<>>
    THEN Appended(<<>>, "none")
    ELSE LET r == append_dbus_type_base_impl(Head(es), early)
         IN  IF r.exc # "none"
             THEN r
             ELSE LET rest == append_each(Tail(es), early)
                  IN  Appended(r.wire \o rest.wire, rest.exc)

\* open_container, the members, close_container.
container(type, es, early) ==
    LET r == append_each(es, early)
    IN  IF r.exc # "none"
        THEN Appended(<<type>> \o r.wire, r.exc)
        ELSE Appended(<<type>> \o r.wire \o <<"close">>, "none")

\* A dict entry's key() and value() return *dict_key and *dict_value
\* without looking at the pointers, and the container is opened before
\* either is used.  A reference to no object is undefined: the fault comes
\* when the member is appended or, early, when the reference is made.
\* dbus_variant::value() throws std::logic_error when there is no value.
append_dbus_type_base_impl(arg, early) ==
    CASE arg.kind = "basic" -> Appended(<<arg.sig>>, "none")
      [] arg.kind = "struct" ->
           IF Len(arg.elements) > 0
           THEN container("STRUCT", arg.elements, early)
           ELSE Appended(<<>>, "none")
      [] arg.kind \in {"array", "properties"} ->
           LET arg_array == IF arg.kind = "properties" THEN arg.props ELSE arg
           IN  IF arg_array.element_sig # ""
               THEN container("ARRAY", arg_array.elements, early)
               ELSE Appended(<<>>, "none")
      [] arg.kind = "dict_entry" ->
           IF arg.dict_key # Null /\ arg.dict_value # Null
           THEN container("DICT_ENTRY", <<arg.dict_key, arg.dict_value>>, early)
           ELSE IF early
           THEN Appended(<<>>, "SIGSEGV")
           ELSE IF arg.dict_key = Null
           THEN Appended(<<"DICT_ENTRY">>, "SIGSEGV")
           ELSE Appended(<<"DICT_ENTRY", arg.dict_key.sig>>, "SIGSEGV")
      [] arg.kind = "variant" ->
           IF arg.val = Null
           THEN Appended(<<>>, "logic_error")
           ELSE container("VARIANT", <<arg.val>>, early)

\* Message::append_dbus_type_base(dst)
append_dbus_type_base ==
    /\ Alive
    /\ \E early \in BOOLEAN :
         LET r == append_dbus_type_base_impl(dst, early)
         IN  last' = [op |-> "append_dbus_type_base", arg |-> 0,
                      ret |-> r.wire, exc |-> r.exc]
    /\ UNCHANGED <<cvars, evars, wait, dst, src>>

\* dst = text, for a basic value dst
assign_string(text) ==
    /\ Alive
    /\ dst.kind = "basic"
    /\ dst' \in dbus_basic_assign(dst, text)
    /\ last' = Call("operator=", text, Result(dst, 0))
    /\ UNCHANGED <<cvars, evars, wait, src>>

\* dst.can_add(e)
can_add(e) ==
    /\ Alive
    /\ dst.kind = "array"
    /\ last' = Call("can_add", e, Result(dst, dbus_array_can_add(dst, e)))
    /\ UNCHANGED <<cvars, evars, wait, dst, src>>

\* clone_dbus_type(dst): dst is copied by the copy constructor of its class.
clone ==
    /\ Alive
    /\ dst.kind \in {"struct", "array", "dict_entry", "variant"}
    /\ \E r \in clone_outcomes(dst) :
         last' = [op |-> "clone_dbus_type", arg |-> 0,
                  ret |-> r.ret, exc |-> r.exc]
    /\ UNCHANGED <<cvars, evars, wait, dst, src>>

ValNext ==
    \/ \E e \in Elements : add(e)
    \/ \E n \in 0..MaxLen : remove(n)
    \/ clear
    \/ \E n \in 0..MaxLen, e \in Elements : subscript(n, e)
    \/ \E k \in Keys : key(k)
    \/ \E v \in Elements : value(v)
    \/ copy_assignment
    \/ move_assignment
    \/ \E k \in Keys, v \in Elements \cup {Boxed} : set(k, v)
    \/ \E k \in Keys : remove_property(k)
    \/ \E k \in Keys : get(k)
    \/ clone
    \/ append_dbus_type_base
    \/ \E text \in Texts : assign_string(text)
    \/ \E e \in Elements : can_add(e)

ValSpec == ValInit /\ [][ValNext]_vars

\* ------------------------------------------------------ Message::get_args

\* Largest number of message arguments and of destinations.
MaxArgs == 2

\* The decoded arguments a message can carry (Message::arguments).
Params ==
    Elements \cup {dbus_array_add(dbus_array, Int32).this,
                   dbus_variant_value(dbus_variant, Int32)}

\* The destinations a caller can supply: objects of the classes derived
\* from dbus_type.  (Properties is not derived from dbus_type; the branch
\* of lines 476-482 for it is not taken for these destinations.)
Destinations == {Int32, String, dbus_struct, dbus_array, dbus_variant}

\* The test made on one position before it is assigned (lines 484-489):
\* two basic values always match; otherwise the type codes, one for each
\* class other than dbus_basic, must be equal.
matches(arg, param) ==
    (arg.kind = "basic" /\ param.kind = "basic") \/ arg.kind = param.kind

\* The loop of Message::get_args from position i on: each position that
\* matches is assigned at once, the first that does not ends the loop with
\* false; the loop also ends with the last argument or destination.
RECURSIVE get_args_from(_, _, _)
get_args_from(args, params, i) ==
    IF i > Len(params) \/ i > Len(args)
    THEN Result(args, TRUE)
    ELSE IF ~matches(args[i], params[i])
         THEN Result(args, FALSE)
         ELSE get_args_from([args EXCEPT ![i] = copy(@, params[i]).this],
                            params, i + 1)

\* A message with the arguments src and the destinations dst of one call.
ArgInit ==
    /\ Connection
    /\ NoEvents
    /\ dst \in SeqsUpTo(Destinations, MaxArgs) \ {<<>>}
    /\ src \in SeqsUpTo(Params, MaxArgs)
    /\ last = NoCall

\* msg.get_args(&dst[1], ..., nullptr)
get_args ==
    /\ LET r == get_args_from(dst, src, 1)
       IN  /\ dst' = r.this
           /\ last' = Call("get_args", 0, r)
    /\ UNCHANGED <<cvars, evars, wait, src>>

ArgNext == get_args

ArgSpec == ArgInit /\ [][ArgNext]_vars

\* -------------------------------------------- ObjectProxy, MessageHandler

\* Signal callbacks one proxy holds at most.
MaxCallbacks == 2

\* Interface and member names the application and the bus use; "" stands
\* for any, "x" is no interface name and "a.b" no member name.
Interfaces == {"a.b", "c.d"}
Members == {"m", "n"}
Callbacks == {"cb1", "cb2"}
Paths == {"/obj", "/other"}

\* The unique name of this bus connection.
unique_name == ":1.1"

\* dbus_validate_interface / dbus_validate_member, as far as the names above
\* go: an interface name has a period, a member name is not empty and has
\* none.
has_period(s) == \E i \in 1..Len(s) : SubSeq(s, i, i) = "."

dbus_validate_interface(s) == has_period(s)

dbus_validate_member(s) == s # "" /\ ~has_period(s)

\* ObjectProxy::ObjectProxy(connection, service, object_path): no callback,
\* and the MessageHandler it derives from has no match rule.
ObjectProxy ==
    [kind |-> "proxy", target |-> "org.svc", opath |-> "/obj",
     callbacks |-> <<>>, proxy_rules |-> {}]

\* The rule text add_signal_callback and remove_signal_callback build.
rule_of(this, iface, signal) ==
    "type='signal',sender='" \o this.target \o "',path='" \o this.opath \o "'"
    \o (IF iface # "" THEN ",interface='" \o iface \o "'" ELSE "")
    \o (IF signal # "" THEN ",member='" \o signal \o "'" ELSE "")

\* std::map::emplace: a key already in the map keeps its value.
emplace(map, k, v) ==
    IF k \in DOMAIN map THEN map ELSE (k :> v) @@ map

\* std::map::erase of a key.
erase_key(map, k) == [j \in DOMAIN map \ {k} |-> map[j]]

\* ObjectProxy::remove_signal_callback: nothing without an entry; otherwise
\* the entry is erased and its match rule removed.
ObjectProxy_remove_signal_callback(this, iface, signal) ==
    LET k == <<iface, signal>>
    IN  IF k \notin DOMAIN this.callbacks
        THEN this
        ELSE [this EXCEPT !.callbacks = erase_key(@, k),
                          !.proxy_rules = @ \ {rule_of(this, iface, signal)}]

\* ObjectProxy::add_signal_callback: -1 for an invalid name; a null callback
\* removes; otherwise the callback is emplaced and the match rule added.
ObjectProxy_add_signal_callback(this, iface, signal, callback) ==
    IF iface # "" /\ ~dbus_validate_interface(iface)
    THEN Result(this, -1)
    ELSE IF signal # "" /\ ~dbus_validate_member(signal)
    THEN Result(this, -1)
    ELSE IF callback = "null"
    THEN Result(ObjectProxy_remove_signal_callback(this, iface, signal), 0)
    ELSE Result([this EXCEPT
                   !.callbacks = emplace(@, <<iface, signal>>, callback),
                   !.proxy_rules = @ \cup {rule_of(this, iface, signal)}], 0)

\* ObjectProxy::clear_signal_callbacks
ObjectProxy_clear_signal_callbacks(this) ==
    [this EXCEPT !.callbacks = <<>>,
                 !.proxy_rules =
                     @ \ {rule_of(this, k[1], k[2]) : k \in DOMAIN this.callbacks}]

\* What handling a message gives: the virtual function dispatch_msg called,
\* the callbacks invoked in order, and the value returned.
Handled(called, invoked, retval) ==
    [called |-> called, invoked |-> invoked, retval |-> retval]

\* ObjectProxy::on_signal_impl after the calls that came before it: the
\* callback found under the key is invoked.
on_signal_impl(this, interface, signal_name, h) ==
    LET k == <<interface, signal_name>>
    IN  IF k \in DOMAIN this.callbacks
        THEN Handled(h.called, Append(h.invoked, this.callbacks[k]), TRUE)
        ELSE h

\* ObjectProxy::on_signal as it would be if it returned at the first key
\* that has a callback.
on_signal_first(this, msg) ==
    IF msg.path # this.opath
    THEN Handled("on_signal", <<>>, FALSE)
    ELSE LET h0 == Handled("on_signal", <<>>, FALSE)
             h1 == on_signal_impl(this, msg.interface, msg.name, h0)
             h2 == IF h1.retval THEN h1
                   ELSE on_signal_impl(this, "", msg.name, h1)
             h3 == IF h2.retval THEN h2
                   ELSE on_signal_impl(this, msg.interface, "", h2)
         IN  IF h3.retval THEN h3 ELSE on_signal_impl(this, "", "", h3)

\* ObjectProxy::on_signal: a signal of another path is not handled; for one
\* of this path the four keys are tried one after the other.
on_signal(this, msg) ==
    IF msg.path # this.opath
    THEN Handled("on_signal", <<>>, FALSE)
    ELSE LET h0 == Handled("on_signal", <<>>, FALSE)
             h1 == on_signal_impl(this, msg.interface, msg.name, h0)
             h2 == on_signal_impl(this, "", msg.name, h1)
             h3 == on_signal_impl(this, msg.interface, "", h2)
         IN  on_signal_impl(this, "", "", h3)

\* MessageHandler::on_method_call: not overridden by ObjectProxy.
on_method_call(this, msg) == Handled("on_method_call", <<>>, FALSE)

\* MessageHandler::dispatch_msg: by the type of the message alone.
dispatch_msg(this, msg) ==
    IF msg.type = "method_call"
    THEN on_method_call(this, msg)
    ELSE IF msg.type = "signal"
    THEN on_signal(this, msg)
    ELSE Handled("none", <<>>, FALSE)

\* The messages the filter function is handed: method calls carry a
\* destination, which need not be this connection when a match rule lets
\* the bus deliver them; signals carry an interface and a member.
Messages ==
    [type : {"method_call"}, destination : {unique_name, ":1.2"},
     path : {"/obj"}, interface : {"a.b"}, name : {"m"}]
    \cup [type : {"signal"}, destination : {""},
          path : Paths, interface : Interfaces, name : Members]
    \cup [type : {"method_return"}, destination : {unique_name},
          path : {""}, interface : {""}, name : {""}]

ProxyInit ==
    /\ Connection
    /\ NoEvents
    /\ dst = ObjectProxy
    /\ src = Null
    /\ last = NoCall

\* dst.add_signal_callback(iface, signal, callback)
add_signal_callback(iface, signal, callback) ==
    /\ dst.kind = "proxy"
    /\ LET r == ObjectProxy_add_signal_callback(dst, iface, signal, callback)
       IN  /\ Cardinality(DOMAIN r.this.callbacks) <= MaxCallbacks
           /\ dst' = r.this
           /\ last' = Call("add_signal_callback",
                           [iface |-> iface, signal |-> signal,
                            callback |-> callback], r)
    /\ UNCHANGED <<cvars, evars, wait, src>>

\* dst.remove_signal_callback(iface, signal)
remove_signal_callback(iface, signal) ==
    /\ dst.kind = "proxy"
    /\ dst' = ObjectProxy_remove_signal_callback(dst, iface, signal)
    /\ last' = Call("remove_signal_callback",
                    [iface |-> iface, signal |-> signal], Result(dst', 0))
    /\ UNCHANGED <<cvars, evars, wait, src>>

\* dst.clear_signal_callbacks()
clear_signal_callbacks ==
    /\ dst.kind = "proxy"
    /\ dst' = ObjectProxy_clear_signal_callbacks(dst)
    /\ last' = Call("clear_signal_callbacks", 0, Result(dst', 0))
    /\ UNCHANGED <<cvars, evars, wait, src>>

\* MessageHandler::static_dbus_handler: the transport hands msg to the
\* filter of dst, on_message, which is dispatch_msg.
on_message(msg) ==
    /\ dst.kind = "proxy"
    /\ LET h == dispatch_msg(dst, msg)
       IN  last' = [op |-> "on_message", arg |-> msg, ret |-> h.retval,
                    exc |-> "none", called |-> h.called,
                    invoked |-> h.invoked]
    /\ UNCHANGED <<cvars, evars, wait, dst, src>>

ProxyNext ==
    \/ \E iface \in Interfaces \cup {"", "x"}, signal \in Members \cup {"", "a.b"},
          callback \in Callbacks \cup {"null"} :
           add_signal_callback(iface, signal, callback)
    \/ \E iface \in Interfaces \cup {""}, signal \in Members \cup {""} :
           remove_signal_callback(iface, signal)
    \/ clear_signal_callbacks
    \/ \E msg \in Messages : on_message(msg)

ProxySpec == ProxyInit /\ [][ProxyNext]_vars


\* ------------------------------------------------- the timeout registry

\* The timeouts of the transport, the intervals they have (milliseconds; a
\* pending call's timeout has the interval given to send) and the number of
\* timers set in one behaviour.
TimeoutIds == {"timeout1", "timeout2"}
Intervals == {0, 50}
MaxTimer == 3

\* A timer of io_timers set for a timeout: TimerSet::set(timeout, repeat, cb)
\* with both equal to the interval; a repeat of 0 makes it fire once.
Timer(id, o, repeat) == [id |-> id, timeout |-> o, repeat |-> repeat]

\* TimerSet::cancel(timer_id)
TimerSet_cancel(ts, timer_id) == {x \in ts : x.id # timer_id}

\* The if (timer_id >= 0) { cancel; timer_id = -1; } of the three callbacks.
cancelled(o) ==
    IF o \in DOMAIN io_timeouts /\ io_timeouts[o] >= 0
    THEN TimerSet_cancel(timers, io_timeouts[o])
    ELSE timers

\* The end of dbus_add_timeout_cb and dbus_toggled_timeout_cb for an entry
\* of the registry: an enabled timeout with an interval >= 0 gets a new
\* timer, whose id is stored; any other is left with -1.
set_timer(o, e, interval) ==
    IF e /\ interval >= 0
    THEN /\ next_timer < MaxTimer
         /\ timers' = cancelled(o) \cup {Timer(next_timer, o, interval)}
         /\ io_timeouts' = (o :> next_timer) @@ io_timeouts
         /\ next_timer' = next_timer + 1
    ELSE /\ timers' = cancelled(o)
         /\ io_timeouts' = (o :> -1) @@ io_timeouts
         /\ UNCHANGED next_timer

\* Connection::dbus_add_timeout_cb, under io_mutex: the transport adds a
\* timeout; its entry is found or emplaced with -1.
dbus_add_timeout_cb(o, e, interval) ==
    /\ conn = "open"
    /\ o \notin DOMAIN ttimeouts
    /\ ttimeouts' = (o :> [enabled |-> e, interval |-> interval]) @@ ttimeouts
    /\ set_timer(o, e, interval)
    /\ UNCHANGED <<cvars, wait, tvars, incoming, enabled, armed, wpc, twatches,
                   mvars, svars>>

dbus_remove_timeout_cb_keep(o) ==
    /\ o \in DOMAIN ttimeouts
    /\ ttimeouts' = erase_key(ttimeouts, o)
    /\ IF o \in DOMAIN io_timeouts
       THEN /\ timers' = cancelled(o)
            /\ io_timeouts' = [io_timeouts EXCEPT ![o] = -1]
       ELSE UNCHANGED <<timers, io_timeouts>>
    /\ UNCHANGED <<cvars, wait, tvars, incoming, enabled, armed, wpc, twatches,
                   next_timer, mvars, svars>>

\* Connection::dbus_remove_timeout_cb, under io_mutex: the transport removes
\* a timeout; its timer is cancelled and its entry erased.
dbus_remove_timeout_cb(o) ==
    /\ o \in DOMAIN ttimeouts
    /\ ttimeouts' = erase_key(ttimeouts, o)
    /\ IF o \in DOMAIN io_timeouts
       THEN /\ timers' = cancelled(o)
            /\ io_timeouts' = erase_key(io_timeouts, o)
       ELSE UNCHANGED <<timers, io_timeouts>>
    /\ UNCHANGED <<cvars, wait, tvars, incoming, enabled, armed, wpc, twatches,
                   next_timer, mvars, svars>>

dbus_toggled_timeout_cb_no_cancel(o) ==
    /\ conn = "open"
    /\ o \in DOMAIN ttimeouts
    /\ ttimeouts' = [ttimeouts EXCEPT ![o].enabled = ~@]
    /\ IF o \in DOMAIN io_timeouts
       THEN IF ttimeouts'[o].enabled
            THEN set_timer(o, TRUE, ttimeouts[o].interval)
            ELSE /\ io_timeouts' = (o :> -1) @@ io_timeouts
                 /\ UNCHANGED <<timers, next_timer>>
       ELSE UNCHANGED <<timers, io_timeouts, next_timer>>
    /\ UNCHANGED <<cvars, wait, tvars, incoming, enabled, armed, wpc, twatches,
                   mvars, svars>>

\* Connection::dbus_toggled_timeout_cb, under io_mutex: the transport
\* enabled or disabled a timeout; without an entry nothing is done.
dbus_toggled_timeout_cb(o) ==
    /\ conn = "open"
    /\ o \in DOMAIN ttimeouts
    /\ ttimeouts' = [ttimeouts EXCEPT ![o].enabled = ~@]
    /\ IF o \in DOMAIN io_timeouts
       THEN set_timer(o, ttimeouts'[o].enabled, ttimeouts[o].interval)
       ELSE UNCHANGED <<timers, io_timeouts, next_timer>>
    /\ UNCHANGED <<cvars, wait, tvars, incoming, enabled, armed, wpc, twatches,
                   mvars, svars>>

\* A timer set for a timeout expires on the reactor thread: a timer without
\* repeat is gone from io_timers, and its callback (lines 588-593) calls
\* dbus_timeout_handle, in which the transport queues the timeout error of
\* the pending call and removes the timeout (dbus_remove_timeout_cb: the
\* timer is cancelled, the entry erased), and dbus_connection_dispatch.
timer_expires(x) ==
    /\ running
    /\ x \in timers
    /\ x.timeout \in DOMAIN ttimeouts
    /\ ttimeouts' = erase_key(ttimeouts, x.timeout)
    /\ timers' = LET fired == IF x.repeat = 0 THEN timers \ {x} ELSE timers
                 IN  IF x.timeout \in DOMAIN io_timeouts
                        /\ io_timeouts[x.timeout] >= 0
                     THEN TimerSet_cancel(fired, io_timeouts[x.timeout])
                     ELSE fired
    /\ io_timeouts' = erase_key(io_timeouts, x.timeout)
    /\ lastOp' = Op("timeout", "dbus_connection_dispatch", Reactor)
    /\ UNCHANGED <<conn, internal_io_handler, running, io_watches, io_timers,
                   pending_messages, match_rules, tcalls, rpc, pc, req, nreq,
                   disc, wait, tvars, incoming, enabled, armed, wpc, twatches,
                   next_timer, mvars, svars>>

\* The transport's notifications, the timers and disconnect().
RegistryNext ==
    \/ \E t \in Callers : set_watch_functions(t)
    \/ \E w \in WatchIds, e \in BOOLEAN : dbus_add_watch_cb(w, e)
    \/ \E w \in WatchIds : dbus_remove_watch_cb(w)
    \/ \E w \in WatchIds : dbus_toggled_watch_cb(w)
    \/ \E o \in TimeoutIds, e \in BOOLEAN, interval \in Intervals :
         dbus_add_timeout_cb(o, e, interval)
    \/ \E o \in TimeoutIds : dbus_remove_timeout_cb(o)
    \/ \E o \in TimeoutIds : dbus_toggled_timeout_cb(o)
    \/ \E x \in timers : timer_expires(x)
    \/ \E t \in Callers : disconnect_enter(t)
    \/ \E t \in Callers : disconnect_unref(t)
    \/ \E t \in Callers : disconnect_pending(t)
    \/ \E t \in Callers : disconnect_io(t)
    \/ \E t \in Callers : disconnect_stop(t)
    \/ \E t \in Callers : disconnect_join(t)
    \/ \E t \in Callers : disconnect_return(t)

RegistrySpec == Init /\ [][RegistryNext]_vars

\* ---------------------------------------------------- Message handles

\* DBusMessage handles allocated in one behaviour at most.
MaxHandle == 3

\* dbus_message_new, dbus_message_copy: a new handle with one reference,
\* which is the Message's (by = 0) or the caller's (by = 1).
allocated(by) == /\ refs' = Append(refs, 1)
                 /\ held' = Append(held, by)

\* dbus_message_unref(h)
dbus_message_unref(h) == [refs EXCEPT ![h] = @ - 1]

\* The Message objects that exist.
Constructed == {m \in Objects : msgs[m] >= 0}

\* Message::Message(): a new method call message.
Message_new(m) ==
    /\ msgs[m] = -1
    /\ Len(refs) < MaxHandle
    /\ allocated(0)
    /\ msgs' = [msgs EXCEPT ![m] = Len(refs) + 1]
    /\ UNCHANGED <<cvars, wait, tvars, incoming, enabled, armed, wpc, twatches,
                   rvars, svars>>

\* Message::Message(DBusMessage*) on the result of dbus_message_new, as in
\* Connection.cpp line 306: the constructor takes a reference of its own.
Message_from_handle(m) ==
    /\ msgs[m] = -1
    /\ Len(refs) < MaxHandle
    /\ refs' = Append(refs, 2)
    /\ held' = Append(held, 1)
    /\ msgs' = [msgs EXCEPT ![m] = Len(refs) + 1]
    /\ UNCHANGED <<cvars, wait, tvars, incoming, enabled, armed, wpc, twatches,
                   rvars, svars>>

\* Message::dec_ref, called as in Connection.cpp lines 269, 307 and 439 to
\* give up the reference dbus_message_new returned.
Message_dec_ref(m) ==
    /\ msgs[m] > 0
    /\ held[msgs[m]] > 0
    /\ refs' = dbus_message_unref(msgs[m])
    /\ held' = [held EXCEPT ![msgs[m]] = @ - 1]
    /\ UNCHANGED <<cvars, wait, tvars, incoming, enabled, armed, wpc, twatches,
                   rvars, svars, msgs>>

\* Message::Message(const Message&): a copy of the message, or nullptr.
Message_copy(m, o) ==
    /\ msgs[m] = -1
    /\ o \in Constructed
    /\ IF msgs[o] > 0
       THEN /\ Len(refs) < MaxHandle
            /\ allocated(0)
            /\ msgs' = [msgs EXCEPT ![m] = Len(refs) + 1]
       ELSE /\ msgs' = [msgs EXCEPT ![m] = 0]
            /\ UNCHANGED <<refs, held>>
    /\ UNCHANGED <<cvars, wait, tvars, incoming, enabled, armed, wpc, twatches,
                   rvars, svars>>

\* Message::Message(Message&&)
Message_move(m, o) ==
    /\ msgs[m] = -1
    /\ o \in Constructed
    /\ msgs' = [msgs EXCEPT ![m] = msgs[o], ![o] = 0]
    /\ UNCHANGED <<cvars, wait, tvars, incoming, enabled, armed, wpc, twatches,
                   rvars, svars, refs, held>>

\* Message::~Message
Message_destroy(m) ==
    /\ m \in Constructed
    /\ refs' = IF msgs[m] > 0 THEN dbus_message_unref(msgs[m]) ELSE refs
    /\ msgs' = [msgs EXCEPT ![m] = -1]
    /\ UNCHANGED <<cvars, wait, tvars, incoming, enabled, armed, wpc, twatches,
                   rvars, svars, held>>

\* Message::operator=(const Message&): the copy is made, then the handle
\* owned before is released.
Message_assign(m, o) ==
    /\ m \in Constructed
    /\ o \in Constructed
    /\ m # o
    /\ IF msgs[o] > 0
       THEN /\ Len(refs) < MaxHandle
            /\ held' = Append(held, 0)
            /\ refs' = IF msgs[m] > 0
                       THEN Append(dbus_message_unref(msgs[m]), 1)
                       ELSE Append(refs, 1)
            /\ msgs' = [msgs EXCEPT ![m] = Len(refs) + 1]
       ELSE /\ refs' = IF msgs[m] > 0 THEN dbus_message_unref(msgs[m]) ELSE refs
            /\ msgs' = [msgs EXCEPT ![m] = 0]
            /\ UNCHANGED held
    /\ UNCHANGED <<cvars, wait, tvars, incoming, enabled, armed, wpc, twatches,
                   rvars, svars>>

\* Message::operator=(Message&&): the handle is taken over from the other
\* message, as the callback of send_and_wait does with reply = std::move(r).
Message_move_assign(m, o) ==
    /\ m \in Constructed
    /\ o \in Constructed
    /\ m # o
    /\ msgs' = [msgs EXCEPT ![m] = msgs[o], ![o] = 0]
    /\ UNCHANGED <<cvars, wait, tvars, incoming, enabled, armed, wpc, twatches,
                   rvars, svars, refs, held>>

MessageNext ==
    \/ \E m \in Objects : Message_new(m)
    \/ \E m \in Objects : Message_from_handle(m)
    \/ \E m \in Objects : Message_dec_ref(m)
    \/ \E m, o \in Objects : Message_copy(m, o)
    \/ \E m, o \in Objects : Message_move(m, o)
    \/ \E m \in Objects : Message_destroy(m)
    \/ \E m, o \in Objects : Message_assign(m, o)
    \/ \E m, o \in Objects : Message_move_assign(m, o)

MessageSpec == Init /\ [][MessageNext]_vars

\* ---------------------------- on_signal of Properties and ObjectManager

\* The keys (sender, object path) of the callback tables.
SignalKeys == {"key1", "key2"}

\* The signals handed to on_signal: interface, name, key, and whether
\* get_args accepts the arguments.
Signals == [iface : {"Properties", "ObjectManager", "other"},
            name  : {"PropertiesChanged", "InterfacesAdded",
                     "InterfacesRemoved"},
            key   : SignalKeys,
            valid : BOOLEAN]

mutex_of(tbl) ==
    IF tbl = "props_changed_callbacks" THEN "props_changed_mutex"
                                       ELSE "iface_mutex"

\* The reply callback of get_name_owner in the set_..._callback functions,
\* on the reactor thread under a lock_guard: the callback is entered for the
\* key.
set_callback(tbl, sk) ==
    /\ spc.at = "idle"
    /\ mutex[mutex_of(tbl)] = "none"
    /\ tables' = [tables EXCEPT ![tbl] = @ \cup {sk}]
    /\ UNCHANGED <<cvars, wait, tvars, incoming, enabled, armed, wpc, twatches,
                   rvars, mvars, mutex, spc>>

\* The same of the remove_..._callback functions: the entry is erased.
remove_callback(tbl, sk) ==
    /\ spc.at = "idle"
    /\ mutex[mutex_of(tbl)] = "none"
    /\ tables' = [tables EXCEPT ![tbl] = @ \ {sk}]
    /\ UNCHANGED <<cvars, wait, tvars, incoming, enabled, armed, wpc, twatches,
                   rvars, mvars, mutex, spc>>

\* std::lock_guard<std::mutex> lock(m), then the lookup in the table.
locked(tbl, found) ==
    /\ mutex[mutex_of(tbl)] = "none"
    /\ mutex' = [mutex EXCEPT ![mutex_of(tbl)] = Reactor]
    /\ spc' = [at |-> IF found THEN "unlock" ELSE "exit", table |-> tbl,
               found |-> found]

\* org_freedesktop_DBus_Properties::on_signal up to line 336: another signal
\* is left alone; for PropertiesChanged the mutex is locked, and a callback
\* found for the key is called when get_args accepts the arguments.
Properties_on_signal(msg) ==
    /\ spc.at = "idle"
    /\ IF msg.iface # "Properties" \/ msg.name # "PropertiesChanged"
       THEN UNCHANGED <<mutex, spc>>
       ELSE locked("props_changed_callbacks",
                   msg.key \in tables["props_changed_callbacks"] /\ msg.valid)
    /\ UNCHANGED <<cvars, wait, tvars, incoming, enabled, armed, wpc, twatches,
                   rvars, mvars, tables>>

\* org_freedesktop_DBus_ObjectManager::on_signal up to lines 289 and 299.
ObjectManager_on_signal(msg) ==
    /\ spc.at = "idle"
    /\ IF msg.iface # "ObjectManager" \/ msg.name = "PropertiesChanged"
       THEN UNCHANGED <<mutex, spc>>
       ELSE IF msg.name = "InterfacesAdded"
       THEN locked("iface_added_callbacks",
                   msg.key \in tables["iface_added_callbacks"])
       ELSE locked("iface_removed_callbacks",
                   msg.key \in tables["iface_removed_callbacks"])
    /\ UNCHANGED <<cvars, wait, tvars, incoming, enabled, armed, wpc, twatches,
                   rvars, mvars, tables>>

\* props_changed_mutex.unlock() (Properties, line 337), iface_mutex.unlock()
\* (ObjectManager, lines 291 and 301): the mutex is unlocked by hand before
\* the callback is called.
on_signal_unlock ==
    /\ spc.at = "unlock"
    /\ mutex' = [mutex EXCEPT ![mutex_of(spc.table)] = "none"]
    /\ spc' = [spc EXCEPT !.at = "callback"]
    /\ UNCHANGED <<cvars, wait, tvars, incoming, enabled, armed, wpc, twatches,
                   rvars, mvars, tables>>

\* The callback (cb, handle_added_ifaces, handle_removed_ifaces) returns, or
\* throws a std::bad_cast that is caught.
on_signal_callback ==
    /\ spc.at = "callback"
    /\ spc' = [spc EXCEPT !.at = "exit"]
    /\ UNCHANGED <<cvars, wait, tvars, incoming, enabled, armed, wpc, twatches,
                   rvars, mvars, mutex, tables>>

\* What unlocking a std::mutex the thread does not hold can do (undefined
\* behaviour): leave it unlocked, or leave it unusable.
unheld_unlock_outcomes == {"none", "corrupt"}

\* The end of the scope of the lock_guard: its destructor unlocks the mutex.
on_signal_return(outcome) ==
    /\ spc.at = "exit"
    /\ mutex' = [mutex EXCEPT ![mutex_of(spc.table)] =
                   IF @ = Reactor THEN "none" ELSE outcome]
    /\ spc' = NoSignal
    /\ UNCHANGED <<cvars, wait, tvars, incoming, enabled, armed, wpc, twatches,
                   rvars, mvars, tables>>

SignalNext ==
    \/ \E tbl \in Tables, sk \in SignalKeys : set_callback(tbl, sk)
    \/ \E tbl \in Tables, sk \in SignalKeys : remove_callback(tbl, sk)
    \/ \E msg \in Signals : Properties_on_signal(msg)
    \/ \E msg \in Signals : ObjectManager_on_signal(msg)
    \/ on_signal_unlock
    \/ on_signal_callback
    \/ \E outcome \in unheld_unlock_outcomes : on_signal_return(outcome)

SignalSpec == Init /\ [][SignalNext]_vars

\* ------------------------------------- disconnect() on the reactor thread

\* A reply or signal callback, run inside dbus_connection_dispatch on the
\* reactor thread, calls disconnect(): lines 176-181, the handle is released.
reactor_disconnect_unref ==
    /\ wpc.at = "dispatch"
    /\ incoming > 0
    /\ conn = "open"
    /\ incoming' = incoming - 1
    /\ conn' = "released"
    /\ disc' = IF disc = "no" THEN "called" ELSE disc
    /\ wpc' = [wpc EXCEPT !.at = "pending"]
    /\ UNCHANGED <<internal_io_handler, running, io_watches, io_timers,
                   pending_messages, match_rules, tcalls, rpc, pc, req, nreq,
                   lastOp, wait, tvars, enabled, armed, twatches, rvars, mvars, svars>>

\* lines 183-187: the pending calls are dropped.
reactor_disconnect_pending ==
    /\ wpc.at = "pending"
    /\ pending_messages' = {}
    /\ wpc' = [wpc EXCEPT !.at = "io"]
    /\ UNCHANGED <<conn, internal_io_handler, running, io_watches, io_timers,
                   match_rules, tcalls, rpc, pc, req, nreq, disc, lastOp, wait,
                   tvars, incoming, enabled, armed, twatches, rvars, mvars, svars>>

\* lines 189-195: the registries are cleared; only an internal reactor is
\* stopped and joined.
reactor_disconnect_io ==
    /\ wpc.at = "io"
    /\ io_watches' = {}
    /\ armed' = {}
    /\ io_timers' = {}
    /\ timers' = {}
    /\ io_timeouts' = <<>>
    /\ wpc' = [wpc EXCEPT !.at = IF internal_io_handler THEN "stop" ELSE "reset"]
    /\ UNCHANGED <<conn, internal_io_handler, running, pending_messages,
                   match_rules, tcalls, rpc, pc, req, nreq, disc, lastOp, wait,
                   tvars, incoming, enabled, twatches, ttimeouts, next_timer,
                   mvars, svars>>

\* line 196: ioh->stop().
reactor_disconnect_stop ==
    /\ wpc.at = "stop"
    /\ running' = FALSE
    /\ wpc' = [wpc EXCEPT !.at = "join"]
    /\ UNCHANGED <<conn, internal_io_handler, io_watches, io_timers,
                   pending_messages, match_rules, tcalls, rpc, pc, req, nreq,
                   disc, lastOp, wait, tvars, incoming, enabled, armed, twatches,
                   rvars, mvars, svars>>

\* What joining the worker thread can do to the worker thread itself, which
\* has not ended while it is in the call: wait for its own end, or have the
\* thread library detect the deadlock and throw std::system_error out of
\* disconnect().
self_join_outcomes == {"blocked", "system_error"}

\* line 197: ioh->join(), called without a same_context() test.
reactor_disconnect_join(outcome) ==
    /\ wpc.at = "join"
    /\ wpc' = [wpc EXCEPT !.at = outcome]
    /\ UNCHANGED <<cvars, wait, tvars, incoming, enabled, armed, twatches,
                   rvars, mvars, svars>>

\* lines 200-202: the handle is reset and disconnect() returns into the
\* callback, which returns into the loop of the readiness handler.
reactor_disconnect_return ==
    /\ wpc.at = "reset"
    /\ conn' = "null"
    /\ disc' = "returned"
    /\ wpc' = [wpc EXCEPT !.at = IF incoming > 0 THEN "dispatch" ELSE "rearm"]
    /\ UNCHANGED <<internal_io_handler, running, io_watches, io_timers,
                   pending_messages, match_rules, tcalls, rpc, pc, req, nreq,
                   lastOp, wait, tvars, incoming, enabled, armed, twatches,
                   rvars, mvars, svars>>

\* The steps of a disconnect() running on the reactor thread.
ReactorDisconnect ==
    \/ reactor_disconnect_pending
    \/ reactor_disconnect_io
    \/ reactor_disconnect_stop
    \/ \E outcome \in self_join_outcomes : reactor_disconnect_join(outcome)
    \/ reactor_disconnect_return

\* The readiness handlers with callbacks that may call disconnect().
ReentrantNext ==
    \/ \E t \in Callers : set_watch_functions(t)
    \/ \E k \in 0..MaxQueue : on_watch_rx_ready(k)
    \/ dbus_connection_dispatch
    \/ \E k \in 0..1 : on_watch_tx_ready(k)
    \/ rearm
    \/ \E w \in WatchIds, e \in BOOLEAN : dbus_add_watch_cb(w, e)
    \/ \E w \in WatchIds : dbus_remove_watch_cb(w)
    \/ \E w \in WatchIds : dbus_toggled_watch_cb(w)
    \/ reactor_disconnect_unref
    \/ ReactorDisconnect

ReentrantSpec == Init /\ [][ReentrantNext]_vars

\* The reactor thread goes on running the disconnect() it is in.
ReentrantFairSpec == ReentrantSpec /\ WF_vars(ReactorDisconnect)

\* ----------------------------------------------------------------- claims

\* C1 (as stated): every registered callback is eventually invoked, and it is
\* invoked exactly once.
C1_Original ==
    /\ [](\A i \in Reqs : req[i].cb <= 1)
    /\ \A i \in Reqs : req[i].registered ~> (req[i].cb = 1)

\* C1 (amended): a registered callback is invoked at most once, and it is
\* eventually invoked exactly once unless disconnect() is called.
C1_Amended ==
    /\ [](\A i \in Reqs : req[i].cb <= 1)
    /\ \A i \in Reqs :
         (req[i].registered /\ disc = "no") ~> (req[i].cb = 1 \/ disc # "no")

C1_Witness ==
    \E i \in Reqs : req[i].registered /\ req[i].cb = 1 /\ disc = "no"

\* C2: no reply callback is invoked after disconnect() has returned; stated
\* for the callbacks dbus_pending_msg_cb invokes with the transport's reply.
C2_NoCallbackAfterDisconnect ==
    [][(rpc.at = "notify_cb" /\ rpc'.at = "callback") => disc # "returned"]_vars

\* C3: every operation on the transport handle (send with or without reply
\* callback, adding or removing a match rule) runs on the reactor thread.
C3_HandleOpsOnReactor ==
    lastOp.thread \in {"none", Reactor}

C6_EmptyOnReturn ==
    [][(\E t \in Callers : pc[t] = "reset" /\ pc'[t] = "idle")
         => /\ pending_messages' = {}
            /\ \A i \in Reqs : req'[i].dropped => req'[i].cb = 0]_vars

\* C7: the reply callback of a pending request is invoked at most once, also
\* when its completion races with disconnect().
C7_AtMostOnce ==
    \A i \in Reqs : req[i].cb <= 1

C7_Witness ==
    \E i \in Reqs : req[i].registered /\ req[i].cb = 1 /\ disc # "no"

\* C8 (as stated): a completion notification always finds its entry.
C8_Original ==
    \A i \in Reqs : ~req[i].lost

\* C8 (amended): the entry of a request is in the table before the transport
\* can signal its completion, so a completion notification finds its entry
\* unless disconnect() has emptied the table since; no completion arrives
\* before the registration.
C8_Amended ==
    \A i \in Reqs :
        /\ i \in tcalls => (i \in pending_messages \/ req[i].dropped)
        /\ (rpc.at = "notify" /\ rpc.id = i)
             => (i \in pending_messages \/ req[i].dropped)
        /\ req[i].lost => (req[i].registered /\ req[i].dropped)

C8_Witness ==
    \E i \in Reqs : rpc.at = "notify_cb" /\ rpc.id = i /\ req[i].registered

\* C9: while a reply callback runs, the entry it was stored under is no
\* longer in the table.
C9_EntryGoneInCallback ==
    rpc.at = "callback" => rpc.id \notin pending_messages

C9_Witness ==
    /\ rpc.at = "callback"
    /\ req[rpc.id].registered
    /\ \E j \in Reqs : j # rpc.id /\ req[j].origin = "reactor" /\ req[j].returned

\* C10: add_match_rule and remove_match_rule called from a thread other than
\* the reactor thread send an outbound message through the connection and do
\* not call the transport handle directly.
C10_MatchRuleByMessage ==
    (lastOp.api \in {"add_match_rule", "remove_match_rule"} /\ lastOp.thread # Reactor)
        => lastOp.prim = "dbus_connection_send"

\* Properties::operator[](name) finds an entry: the map contains the key.
contains(this, k) ==
    \E i \in 0..(Len(this.props.elements) - 1) : name(this, i) = k

\* C11: for a Properties map that contains an entry with key k, remove(k)
\* followed by get(k) fails with not-found: every remove(k) step on such a
\* map leaves a map on which get(k) returns -1.
C11_RemoveThenGet ==
    [][\A k \in Keys :
         (/\ last'.op = "Properties::remove"
          /\ last'.arg = k
          /\ contains(dst, k))
         => Properties_get(dst', k, Int32).ret = -1]_vars

\* The default-constructed object of the class of this.
empty(this) ==
    CASE this.kind = "struct"     -> dbus_struct
      [] this.kind = "array"      -> dbus_array
      [] this.kind = "dict_entry" -> dbus_dict_entry
      [] this.kind = "variant"    -> dbus_variant

\* C12: moving a Struct, Array, Dict-entry or Variant from a value of the
\* same kind succeeds, gives the destination the source's former content
\* and signature, and leaves the source empty with the signature of an
\* empty value of its kind.
C12_MoveSameKind ==
    [][last'.op = "move"
       => /\ last'.exc = "none"
          /\ dst' = src
          /\ src' = empty(src)]_vars

\* C13: adding to a non-empty Array an element whose signature differs from
\* the array's element signature fails and leaves the array unchanged: same
\* size, same elements, same element signature and same signature.
C13_AddMismatchRefused ==
    [][(/\ last'.op = "add"
        /\ dst.kind = "array"
        /\ dst.elements # <<>>
        /\ last'.arg.sig # dst.element_sig)
       => /\ last'.ret = -1
          /\ dst' = dst]_vars

\* An add of an element of another signature to a non-empty array was made.
C13_Witness ==
    /\ last.op = "add"
    /\ dst.kind = "array"
    /\ dst.elements # <<>>
    /\ last.arg.sig # dst.element_sig
    /\ last.ret = -1

\* The signature a value has by its content alone: the type of a basic
\* value, the members of a struct between parentheses, "a" and the element
\* type of an array, key and value of a dict entry between braces, "v".
RECURSIVE derived(_)
RECURSIVE derived_all(_)
derived(this) ==
    CASE this.kind = "basic"   -> this.sig
      [] this.kind = "variant" -> "v"
      [] this.kind = "struct"  -> "(" \o derived_all(this.elements) \o ")"
      [] this.kind = "array"   ->
           "a" \o (IF this.elements = <<>>
                   THEN this.element_sig
                   ELSE derived(this.elements[1]))
      [] this.kind = "dict_entry" ->
           "{" \o (IF this.dict_key = Null THEN "" ELSE derived(this.dict_key))
               \o (IF this.dict_value = Null THEN "" ELSE derived(this.dict_value))
               \o "}"

derived_all(es) ==
    IF es = <<>> THEN "" ELSE derived(Head(es)) \o derived_all(Tail(es))

\* C14: after any sequence of mutations (add, remove, clear, key and value
\* setters, copy or move assignment, assignment to a member obtained through
\* operator[]) the signature() of a Struct, Array or Dict-entry equals the
\* signature derived bottom-up from its current content.
C14_SignatureDerived ==
    dst.kind \in {"struct", "array", "dict_entry"} => dst.sig = derived(dst)

\* C15: in every reachable state of an Array, every element's signature
\* equals the array's element_signature(), including after an element is
\* re-typed by assignment through operator[] and after the array is copied.
C15_ElementsShareSignature ==
    dst.kind = "array"
    => \A i \in 1..Len(dst.elements) : dst.elements[i].sig = dst.element_sig

\* C16: get_args does not partially apply: if any positional argument fails
\* to match its destination structurally, get_args returns failure and none
\* of the supplied destinations has been modified, including those at
\* earlier positions.
C16_NoPartialApply ==
    [][(/\ last'.op = "get_args"
        /\ \E i \in 1..Len(dst) : i <= Len(src) /\ ~matches(dst[i], src[i]))
       => /\ last'.ret = FALSE
          /\ dst' = dst]_vars

\* C17: disconnect() is idempotent: for any number of disconnect() calls,
\* sequential or concurrent, following one successful connect, the transport
\* handle is released exactly once: every dbus_connection_unref made by a
\* disconnect() call is made on the handle while it is still unreleased.
C17_ReleasedOnce ==
    [][\A t \in Callers :
         (pc[t] = "unref" /\ pc'[t] = "pending") => conn = "open"]_vars

\* C18: if the registration handshake inside connect(bus_address, timeout,
\* ...) ends with an error reply or with a reply carrying no non-empty
\* identity, connect returns failure and leaves the connection Disconnected:
\* when that connect returns, the handle is null (is_connected() false) and
\* the pending-request table and the watch and timer registries are empty.
C18_FailedHandshakeDisconnected ==
    [][(\E t \in Callers :
          \/ wait[t].api = "connect" /\ wait'[t].api = "failed"
          \/ wait[t].api = "disconnecting" /\ pc[t] = "reset" /\ pc'[t] = "idle")
       => /\ conn' = "null"
          /\ pending_messages' = {}
          /\ io_watches' = {}
          /\ io_timers' = {}]_vars


\* C20: send_and_wait called from a non-reactor thread returns only after the
\* callback of its request has been invoked, and the reply it returns is the
\* reply that callback was invoked with.
C20_ReturnsCallbackReply ==
    [][\A t \in Callers :
          (wait[t].api = "send_and_wait" /\ wait'[t].api = "returned")
          => /\ req[wait[t].id].cb = 1
             /\ req[wait[t].id].reply # "none"
             /\ wait'[t].ret = req[wait[t].id].reply]_vars

C20_Witness ==
    \E t \in Callers :
        /\ wait[t].api = "returned"
        /\ req[wait[t].id].cb = 1
        /\ wait[t].ret = req[wait[t].id].reply
        /\ wait[t].ret \in {"transport", "local_error"}


\* The callback of a request the transport accepted starts running: with the
\* transport's timeout error, the request's first invocation, its entry out
\* of the pending-request table.
C19_TimeoutInvocation ==
    \A i \in Reqs :
        (req[i].registered /\ req'[i].cb # req[i].cb)
        => /\ req[i].cb = 0
           /\ rpc.back = "timeout_error"
           /\ req'[i].reply = "transport"
           /\ i \notin pending_messages'

\* C19 (as stated): a request sent with a callback to a peer that never
\* replies gets, once its timeout has expired, exactly one callback
\* invocation, with an error reply, and its entry is then out of the
\* pending-request table.
C19_Original ==
    /\ [][C19_TimeoutInvocation]_vars
    /\ \A i \in Reqs :
         req[i].registered ~> (req[i].cb = 1 /\ i \notin pending_messages)

\* C19 (amended): the same, unless disconnect() is called before the timeout
\* has expired; the request then gets at most that one invocation.
C19_Amended ==
    /\ [][C19_TimeoutInvocation]_vars
    /\ \A i \in Reqs :
         (req[i].registered /\ disc = "no")
         ~> ((req[i].cb = 1 /\ i \notin pending_messages) \/ disc # "no")

C19_Witness ==
    \E i \in Reqs :
        /\ req[i].registered
        /\ req[i].cb = 1
        /\ req[i].reply = "transport"
        /\ i \notin pending_messages
        /\ rpc = [at |-> "callback", id |-> i, back |-> "dispatch"]
        /\ disc = "no"

\* C21: whenever a readiness handler of a watch (readable or writable) has
\* finished and the watch waits again, the transport holds no message that
\* was not dispatched.
C21_NothingUndispatched ==
    wpc.at = "idle" => incoming = 0


\* The callbacks registered in this under the keys ks, in the order of ks.
RECURSIVE registered_under(_, _)
registered_under(this, ks) ==
    IF ks = <<>>
    THEN <<>>
    ELSE (IF Head(ks) \in DOMAIN this.callbacks
          THEN <<this.callbacks[Head(ks)]>>
          ELSE <<>>) \o registered_under(this, Tail(ks))

\* C22: for a signal on the proxy's path the callbacks invoked are those
\* registered under (interface, member), ("", member), (interface, "") and
\* ("", ""), every one of them and in that order, and the signal is reported
\* handled exactly when one was invoked.
C22_EveryMatchInOrder ==
    (last.op = "on_message" /\ last.arg.type = "signal"
       /\ last.arg.path = dst.opath)
    => /\ last.invoked =
            registered_under(dst, << <<last.arg.interface, last.arg.name>>,
                                     <<"", last.arg.name>>,
                                     <<last.arg.interface, "">>,
                                     <<"", "">> >>)
       /\ last.ret = (last.invoked # <<>>)

C22_Witness ==
    /\ last.op = "on_message"
    /\ last.arg.type = "signal"
    /\ last.arg.path = dst.opath
    /\ Len(last.invoked) = 2
    /\ last.ret = TRUE

\* C23: after add_signal_callback has returned 0 for a non-null callback,
\* the callback registered under its key is that callback, also when the
\* key had a callback before.
C23_SecondReplacesFirst ==
    (last.op = "add_signal_callback" /\ last.ret = 0
       /\ last.arg.callback # "null")
    => /\ <<last.arg.iface, last.arg.signal>> \in DOMAIN dst.callbacks
       /\ dst.callbacks[<<last.arg.iface, last.arg.signal>>]
              = last.arg.callback

\* C24: dispatch_msg does not call on_method_call for a method call whose
\* destination is not this bus connection.
C24_OnlyOwnMethodCalls ==
    (last.op = "on_message" /\ last.arg.type = "method_call"
       /\ last.arg.destination # unique_name)
    => last.called # "on_method_call"


\* C25: remove(name) on a Properties map without an entry named name does
\* nothing: the map afterwards has the entries it had, in number, keys and
\* values.
C25_RemoveAbsentNoEffect ==
    [][\A k \in Keys :
         (/\ last'.op = "Properties::remove"
          /\ last'.arg = k
          /\ ~contains(dst, k))
         => dst' = dst]_vars


\* The empty destinations of the kind of v that get can be given.
of_kind(v) ==
    CASE v.kind = "basic"   -> {Int32, String}
      [] v.kind = "struct"  -> {dbus_struct}
      [] v.kind = "variant" -> {dbus_variant}

\* C26: after set(k, v) on a Properties map, get(k) into a destination of
\* v's kind returns 0 and the destination then equals v; the map has one
\* entry more when k was absent and as many as before when k was present.
C26_SetThenGet ==
    [][\A k \in Keys :
         (last'.op = "Properties::set" /\ last'.arg = k)
         => /\ \A d \in of_kind(src') :
                 Properties_get(dst', k, d) = Result(src', 0)
            /\ Len(dst'.props.elements) =
                   Len(dst.props.elements) + (IF contains(dst, k) THEN 0 ELSE 1)]_vars

\* C27: copying a typed value succeeds, and the copy has the signature()
\* and the str() of the value copied.
C27_CopyFidelity ==
    last.op = "clone_dbus_type"
    => /\ last.exc = "none"
       /\ last.ret.sig = dst.sig
       /\ str_returns(dst)
       /\ str(last.ret) = str(dst)

\* C28: remove(n) on an Array or a Struct with n >= size() fails, the Array
\* returning -1 and the Struct throwing out_of_range, and leaves the
\* container unchanged.
C28_RemoveOutOfBounds ==
    [][(last'.op = "remove" /\ last'.arg >= Len(dst.elements))
       => /\ dst' = dst
          /\ dst.kind = "array"  => (last'.ret = -1 /\ last'.exc = "none")
          /\ dst.kind = "struct" => last'.exc = "out_of_range"]_vars

\* A value that carries nothing to encode: an array without element
\* signature, a dict entry without key or without value, a variant without
\* value.
carries_nothing(arg) ==
    CASE arg.kind = "array"      -> arg.element_sig = ""
      [] arg.kind = "dict_entry" -> arg.dict_key = Null \/ arg.dict_value = Null
      [] arg.kind = "variant"    -> arg.val = Null
      [] OTHER                   -> FALSE

\* C29: appending to a message an Array with an empty element signature, a
\* Dict-entry whose key or value is unset, or a Variant with no value
\* returns without having opened a wire container for it.
C29_NothingOpened ==
    (last.op = "append_dbus_type_base" /\ carries_nothing(dst))
    => /\ last.exc = "none"
       /\ last.ret = <<>>

C31_AssignStringRetypes ==
    [][(/\ last'.op = "operator="
        /\ dst.sig \notin {"s", "o", "g"})
       => /\ dst'.sig = "s"
          /\ str(dst') = last'.arg]_vars

\* C32: in every reachable state of an Array and for every element e,
\* can_add(e) returns true if and only if add(e) would succeed in that
\* state.
C32_CanAddIffAdd ==
    last.op = "can_add"
    => (last.ret <=> dbus_array_add(dst, last.arg).ret = 0)

\* C33: no operation is performed on the transport handle after disconnect()
\* has released it: neither the send task or a send on the reactor thread
\* gives a request to the transport, nor does the reactor enter
\* dbus_connection_dispatch, while conn is the released handle.
C33_NoUseAfterRelease ==
    [][(\/ rpc.at = "task" /\ rpc'.at # "task"
        \/ rpc.at # "dispatch" /\ rpc'.at = "dispatch"
        \/ nreq' # nreq /\ req'[nreq'].origin = "reactor")
       => conn # "released"]_vars

\* C34: every send_and_wait call made from a non-reactor thread eventually
\* returns, also when another thread calls disconnect() meanwhile.
C34_WaitReturns ==
    \A t \in Callers :
        (wait[t].api = "send_and_wait") ~> (wait[t].api = "returned")

\* The request whose completion the transport has signalled and whose
\* notify function has not yet looked its entry up.
notified == IF rpc.at = "notify" THEN {rpc.id} ELSE {}

\* C35 as stated: at every moment the pending-request table holds exactly
\* the requests the transport accepted and has not yet completed (with the
\* one whose notify function is about to erase its entry).
C35_Original ==
    pending_messages = tcalls \cup (notified \cap pending_messages)

\* C35: an entry is created exactly when the transport accepts the request,
\* and only once; it is removed by the notify function of its completion
\* or by disconnect(), which discards every entry; so the table holds only
\* accepted requests not yet completed, and an accepted request that is not
\* completed is missing from it only after disconnect() discarded it.
C35_Amended ==
    [][\A i \in Reqs :
         /\ (i \in pending_messages' /\ i \notin pending_messages)
            => (i \in tcalls' /\ i \notin tcalls /\ ~req[i].registered)
         /\ (i \in tcalls' /\ i \notin tcalls) => i \in pending_messages'
         /\ (i \in pending_messages /\ i \notin pending_messages')
            => \/ rpc.at = "notify" /\ rpc.id = i
               \/ \E t \in Callers : pc[t] = "pending" /\ pc'[t] = "io"
         /\ i \in pending_messages'
            => (i \in tcalls' \/ (rpc'.at = "notify" /\ rpc'.id = i))
         /\ (i \in tcalls' /\ i \notin pending_messages') => req'[i].dropped]_vars

\* disconnect() has discarded the entry of a request the transport accepted
\* and has not completed.
C35_Witness ==
    \E i \in Reqs : i \in tcalls /\ i \notin pending_messages /\ req[i].dropped


\* A step in which the transport toggles a watch or a timeout: it adds and
\* removes nothing and the enablement of one of them changes.
toggled_step ==
    /\ twatches' = twatches
    /\ DOMAIN ttimeouts' = DOMAIN ttimeouts
    /\ enabled' # enabled \/ ttimeouts' # ttimeouts

\* The step of disconnect() that clears both registries.
clearing_step == \E t \in Callers : pc[t] = "io" /\ pc'[t] # "io"

C37_ReactorDisconnectReturns ==
    (internal_io_handler /\ wpc.at = "pending") ~> (disc = "returned")

\* The timers scheduled for a timeout.
timers_of(o) == {x \in timers : x.timeout = o}

owners(h) == {m \in Objects : msgs[m] = h}

\* C39: every reference to a message handle belongs to a Message that owns
\* the handle or to the caller that allocated it, so that each reference a
\* Message acquires is released once, when the Message gives the handle up:
\* in particular when a handle is move-assigned over the one it owns.
C39_ReleasedOnce ==
    \A h \in 1..Len(refs) : refs[h] = Cardinality(owners(h)) + held[h]

\* C40: whenever on_signal of either proxy unlocks the mutex of its callback
\* table, by hand before the callback or at the end of the scope of its
\* lock_guard, the reactor thread holds that mutex.
C40_UnlockOnlyHeld ==
    [][(spc.at \in {"unlock", "exit"} /\ spc'.at # spc.at)
       => mutex[mutex_of(spc.table)] = Reactor]_vars

====
